---- MODULE Spec2Model ----
(***************************************************************************)
(* Model of the finance tracker's analytics code:                          *)
(*   finance_core.py          FinanceManager, AIPredictor                  *)
(*   modules/data_manager.py  QuantumDataManager                           *)
(*   modules/ai_engine.py     AIFinancialEngine                            *)
(*                                                                         *)
(* Amounts are whole currency units.  Every quotient the code computes in  *)
(* floating point is kept here as an exact fraction [n, d] with d > 0, so  *)
(* the model has no rounding error of its own.  A date is reduced to its   *)
(* calendar month (the only part of a date that the aggregations read);    *)
(* months are numbered chronologically 1, 2, ...                           *)
(***************************************************************************)
EXTENDS Integers, Sequences, FiniteSets, TLC

\* ---------------------------------------------------------------- bounds
\* longest transaction list of a FinanceManager
MaxTxns == 3
\* longest transaction list of a QuantumDataManager
MaxStored == 2
\* longest transaction list handed to AIFinancialEngine
MaxRows == 3
\* longest transaction list handed to detect_anomalies on its own
MaxAnomalyRows == 6
\* longest transaction list of an engine that also recommends investments
MaxEngineRows == 1
\* longest transaction list handed to calculate_monthly_trend on its own
MaxTrendRows == 3
\* longest transaction list of a FinanceManager whose months do not lie on
\* one line
MaxBandRows == 3
\* longest transaction list handed to forecast_spending on its own
MaxForecastRows == 4
\* longest varied part of a transaction list handed to
\* calculate_financial_health_score on its own
MaxHealthRows == 3
\* longest transaction list of the lists whose ratios lie next to the
\* thresholds of the recommendations
MaxAdviceRows == 2
\* longest transaction list of the lists on which the sample and the
\* population standard deviation disagree about an outlier
MaxOutlierRows == 7
\* most records of a data file found by a new QuantumDataManager
MaxFileRecords == 3
\* longest transaction list of a store that records are deleted from
MaxDeleteRows == 3

\* the values the inputs are drawn from
Months == {1, 2}
Amounts == {1, 3}
Categories == {"Income", "Expense"}
Labels == {"Salary", "Food"}
PortfolioValues == {0, 5}
ForecastMonths == {0, 1, 2}

\* fm_transactions   FinanceManager.transactions
\* qdm_transactions  QuantumDataManager.transactions
\* qdm_portfolio     QuantumDataManager.portfolio.get('total_value', 0)
\* ai_transactions   the transaction list handed to AIFinancialEngine
\* ret               what the last call returned or raised; ret.now is the
\*                   calendar month the call read from the clock (0: none)
\* qdm_cache         QuantumDataManager.cache
\* qdm_file          the transactions and portfolio held by the data file
VARIABLES fm_transactions, qdm_transactions, qdm_portfolio, qdm_cache,
          qdm_file, ai_transactions, ret

qdmVars == <<qdm_transactions, qdm_portfolio, qdm_cache, qdm_file>>

vars == <<fm_transactions, qdm_transactions, qdm_portfolio, qdm_cache,
          qdm_file, ai_transactions, ret>>

\* ------------------------------------------------------ exact fractions
Rat(n, d) == [n |-> n, d |-> d]
RatInt(k) == Rat(k, 1)
RatEq(a, b) == a.n * b.d = b.n * a.d
RatLt(a, b) == a.n * b.d < b.n * a.d
RatLe(a, b) == a.n * b.d <= b.n * a.d
RatMin(a, b) == IF RatLe(a, b) THEN a ELSE b
RatMax(a, b) == IF RatLe(a, b) THEN b ELSE a
RatScale(a, k) == Rat(a.n * k, a.d)
RatAdd(a, b) == Rat(a.n * b.d + b.n * a.d, a.d * b.d)

\* round(x, 1): the nearest multiple of one tenth, as a number of tenths
\* (a tie goes to the even neighbour)
Round1(a) ==
    LET q == (10 * a.n) \div a.d
        r == (10 * a.n) % a.d
    IN  IF 2 * r < a.d THEN q
        ELSE IF 2 * r > a.d THEN q + 1
        ELSE IF q % 2 = 0 THEN q ELSE q + 1

\* ------------------------------------------------------ series helpers
RECURSIVE SumSeq(_)
SumSeq(s) == IF s = <<>> THEN 0 ELSE Head(s) + SumSeq(Tail(s))

RECURSIVE SumAmount(_)
SumAmount(s) == IF s = <<>> THEN 0 ELSE Head(s).amount + SumAmount(Tail(s))

IsIncome(t) == t.category = "Income"
IsExpense(t) == t.category = "Expense"

\* the rows of one calendar month, in list order
InMonth(s, m) == SelectSeq(s, LAMBDA t : t.date = m)

\* the group keys of groupby(month): the months that occur, ascending
MonthsOf(s) == {s[i].date : i \in DOMAIN s}

RECURSIVE SortedMonths(_)
SortedMonths(S) ==
    IF S = {} THEN <<>>
    ELSE LET m == CHOOSE x \in S : \A y \in S : x <= y
         IN  <<m>> \o SortedMonths(S \ {m})

\* groupby(label)['amount'].sum().to_dict(), for rows given as the list of
\* their labels and the list of their amounts
Breakdown(labels, amounts) ==
    [l \in {labels[i] : i \in DOMAIN labels} |->
        SumSeq([i \in DOMAIN labels |->
                  IF labels[i] = l THEN amounts[i] ELSE 0])]

\* the amount column of a list of rows
AmountsOf(rows) == [i \in DOMAIN rows |-> rows[i].amount]

EmptyMap == [l \in {} |-> 0]

NoValue == [none |-> TRUE]
Returned(op, v) == [op |-> op, status |-> "ok", value |-> v, now |-> 0]
Raised(op, e) == [op |-> op, status |-> e, value |-> NoValue, now |-> 0]
At(r, month) == [r EXCEPT !.now = month]

\* ============================================================ FinanceManager
\* finance_core.Transaction: date, amount, category, subcategory
FMTransaction == [date : Months, amount : Amounts, category : Categories,
                  subcategory : Labels]

_get_empty_summary ==
    [total_income |-> 0, total_expenses |-> 0, net_balance |-> 0,
     current_month_income |-> 0, current_month_expense |-> 0,
     savings_rate |-> RatInt(0), expense_ratio |-> RatInt(0),
     expense_breakdown |-> EmptyMap, income_breakdown |-> EmptyMap,
     transaction_count |-> 0,
     avg_monthly_income |-> RatInt(0), avg_monthly_expense |-> RatInt(0)]

\* The 'Income' column of monthly_data: the lambda is applied to the Amount
\* column of the month's group and sums the Income rows.
FMMonthlyIncome(df, m) == SumAmount(SelectSeq(InMonth(df, m), IsIncome))

\* The 'Expense' column of monthly_data: the lambda is applied to the
\* CATEGORY column of the month's group, so .sum() adds up the strings
\* "Expense" of the month's Expense rows: the integer 0 when there is no
\* such row, otherwise the concatenation of that many copies of "Expense".
FMMonthlyExpense(df, m) ==
    LET rows == SelectSeq(InMonth(df, m), IsExpense)
    IN  IF rows = <<>> THEN [kind |-> "int", num |-> 0, copies |-> 0]
        ELSE [kind |-> "str", num |-> 0, copies |-> Len(rows)]

\* Series.mean() of the 'Expense' column is a number only when every entry
\* of the column is a number; with a string in it the mean raises TypeError.
FMExpenseColumnNumeric(df) ==
    \A m \in MonthsOf(df) : FMMonthlyExpense(df, m).kind = "int"

FinanceManager_get_financial_summary(transactions, current_month) ==
    IF transactions = <<>> THEN
        Returned("FinanceManager.get_financial_summary", _get_empty_summary)
    ELSE
    LET df == transactions
        total_income == SumAmount(SelectSeq(df, IsIncome))
        total_expenses == SumAmount(SelectSeq(df, IsExpense))
        net_balance == total_income - total_expenses
        months == MonthsOf(df)
        nmonths == Cardinality(months)
        savings_rate == IF total_income > 0
                        THEN Rat(net_balance * 100, total_income)
                        ELSE RatInt(0)
        expense_ratio == IF total_income > 0
                         THEN Rat(total_expenses * 100, total_income)
                         ELSE RatInt(0)
    IN  IF ~FMExpenseColumnNumeric(df) THEN
            Raised("FinanceManager.get_financial_summary", "TypeError")
        ELSE
            Returned("FinanceManager.get_financial_summary",
              [total_income |-> total_income,
               total_expenses |-> total_expenses,
               net_balance |-> net_balance,
               current_month_income |->
                   IF current_month \in months
                   THEN FMMonthlyIncome(df, current_month) ELSE 0,
               current_month_expense |->
                   IF current_month \in months
                   THEN FMMonthlyExpense(df, current_month).num ELSE 0,
               savings_rate |-> savings_rate,
               expense_ratio |-> expense_ratio,
               expense_breakdown |->
                   LET rows == SelectSeq(df, IsExpense)
                   IN  Breakdown([i \in DOMAIN rows |-> rows[i].subcategory],
                                 AmountsOf(rows)),
               income_breakdown |->
                   LET rows == SelectSeq(df, IsIncome)
                   IN  Breakdown([i \in DOMAIN rows |-> rows[i].subcategory],
                                 AmountsOf(rows)),
               transaction_count |-> Len(df),
               avg_monthly_income |->
                   Rat(SumSeq([i \in 1..nmonths |->
                          FMMonthlyIncome(df, SortedMonths(months)[i])]),
                       nmonths),
               avg_monthly_expense |->
                   Rat(SumSeq([i \in 1..nmonths |->
                          FMMonthlyExpense(df, SortedMonths(months)[i]).num]),
                       nmonths)])

\* ================================================================ AIPredictor
\* monthly_data['Balance'] in chronological order: Income - Expense of every
\* month that has a transaction (both lambdas read the Amount column here)
MonthlyBalance(df) ==
    LET ms == SortedMonths(MonthsOf(df))
    IN  [i \in 1..Len(ms) |->
            SumAmount(SelectSeq(InMonth(df, ms[i]), IsIncome))
          - SumAmount(SelectSeq(InMonth(df, ms[i]), IsExpense))]

\* LinearRegression().fit(X, y) with X = 0..k-1: the least-squares line,
\* slope = N / D and intercept = (Sy - slope * Sx) / k, kept as the integers
\* of the fraction fitted(x) = (Sy*D - N*Sx + N*k*x) / (k*D)
LinearFit(y) ==
    LET k == Len(y)
        Sx == SumSeq([i \in 1..k |-> i - 1])
        Sxx == SumSeq([i \in 1..k |-> (i - 1) * (i - 1)])
        Sy == SumSeq(y)
        Sxy == SumSeq([i \in 1..k |-> (i - 1) * y[i]])
        D == k * Sxx - Sx * Sx
        N == k * Sxy - Sx * Sy
    IN  [base |-> Sy * D - N * Sx, step |-> N * k, den |-> k * D]

\* model.predict([[x]])
Fitted(fit, x) == Rat(fit.base + fit.step * x, fit.den)

\* np.std(y - predict(X)) squared: the mean squared residual (the residuals
\* of a least-squares line with intercept have mean 0)
ResidualVar(fit, y) ==
    LET k == Len(y)
        R == [i \in 1..k |-> y[i] * fit.den - (fit.base + fit.step * (i - 1))]
    IN  Rat(SumSeq([i \in 1..k |-> R[i] * R[i]]), k * fit.den * fit.den)

\* margin_error = std_dev * 1.96, squared and in units of 1 / fit.den:
\* 1.96^2 = 2401 / 625, and std_dev^2 * fit.den^2 is the sum of the squared
\* scaled residuals over their number
MarginSq(fit, y) == Rat(2401 * ResidualVar(fit, y).n, 625 * Len(y))

\* a + b * sqrt(m) >= 0, for integers a and b and a fraction m >= 0
SurdNonNeg(a, b, m) ==
    IF b = 0 THEN a >= 0
    ELSE IF b > 0 THEN a >= 0 \/ m.n * b * b >= a * a * m.d
    ELSE a >= 0 /\ a * a * m.d >= m.n * b * b

\* a faulty variant: nothing is clamped
ClampAtZero_unclamped(num, side, margin_sq, den) ==
    [clamped |-> FALSE, num |-> num, side |-> side,
     margin_sq |-> margin_sq, den |-> den]

\* max(0, pred + side * margin_error): the number
\* (num + side * sqrt(margin_sq)) / den, or 0 when that is negative
ClampAtZero(num, side, margin_sq, den) ==
    [clamped |-> ~SurdNonNeg(num, side, margin_sq), num |-> num,
     side |-> side, margin_sq |-> margin_sq, den |-> den]

\* if df.empty or len(df) < 3
TooFewTransactions(df) == df = <<>> \/ Len(df) < 3

\* a faulty variant: one month is taken to be enough
TooFewMonths_one(monthly_data) == Len(monthly_data) < 1

\* if len(monthly_data) < 2
TooFewMonths(monthly_data) == Len(monthly_data) < 2

predict_future_balance(transactions, months) ==
    LET df == transactions
    IN  IF TooFewTransactions(df) THEN
            Returned("predict_future_balance", [empty |-> TRUE])
        ELSE
        LET y == MonthlyBalance(df)
            k == Len(y)
        IN  IF TooFewMonths(y) THEN
                Returned("predict_future_balance", [empty |-> TRUE])
            ELSE IF months < 1 THEN
                \* predict() on an array of 0 samples
                Raised("predict_future_balance", "ValueError")
            ELSE
            LET fit == LinearFit(y)
                var == ResidualVar(fit, y)
                margin_sq == MarginSq(fit, y)
            IN  Returned("predict_future_balance",
                  [empty |-> FALSE,
                   predictions |->
                       [i \in 1..months |->
                          [month |-> k + (i - 1),
                           fitted |-> Fitted(fit, k + (i - 1)),
                           predicted_balance |->
                               ClampAtZero(Fitted(fit, k + (i - 1)).n, 0,
                                           margin_sq, fit.den),
                           confidence_low |->
                               ClampAtZero(Fitted(fit, k + (i - 1)).n, 0 - 1,
                                           margin_sq, fit.den),
                           confidence_high |->
                               ClampAtZero(Fitted(fit, k + (i - 1)).n, 1,
                                           margin_sq, fit.den),
                           residual_var |-> var]],
                   current_trend |->
                       IF RatLt(Fitted(fit, k), Fitted(fit, k + months - 1))
                       THEN "increasing" ELSE "decreasing"])

\* ======================================================== QuantumDataManager
\* data_manager.Transaction, reduced to the fields the summary reads
QTransaction == [date : Months, amount : Amounts, category : Categories,
                 type : Labels]

get_empty_summary ==
    [total_income |-> 0, total_expenses |-> 0, net_worth |-> 0,
     current_month_income |-> 0, current_month_expenses |-> 0,
     savings_rate |-> RatInt(0),
     expense_breakdown |-> EmptyMap, income_breakdown |-> EmptyMap,
     transaction_count |-> 0, portfolio_value |-> 0]

\* get_financial_summary below its empty-list guard
QDMSummaryOf(transactions, portfolio, current_month) ==
    LET df == transactions
        total_income == SumAmount(SelectSeq(df, IsIncome))
        total_expenses == SumAmount(SelectSeq(df, IsExpense))
        monthly_income ==
            SumAmount(SelectSeq(InMonth(df, current_month), IsIncome))
        monthly_expenses ==
            SumAmount(SelectSeq(InMonth(df, current_month), IsExpense))
    IN  [total_income |-> total_income,
         total_expenses |-> total_expenses,
         net_worth |-> total_income - total_expenses + portfolio,
         current_month_income |-> monthly_income,
         current_month_expenses |-> monthly_expenses,
         savings_rate |->
             IF monthly_income > 0
             THEN Rat((monthly_income - monthly_expenses) * 100,
                      monthly_income)
             ELSE RatInt(0),
         expense_breakdown |->
             LET rows == SelectSeq(df, IsExpense)
             IN  Breakdown([i \in DOMAIN rows |-> rows[i].type],
                           AmountsOf(rows)),
         income_breakdown |->
             LET rows == SelectSeq(df, IsIncome)
             IN  Breakdown([i \in DOMAIN rows |-> rows[i].type],
                           AmountsOf(rows)),
         transaction_count |-> Len(df),
         portfolio_value |-> portfolio]

\* a faulty variant: the empty-list guard is missing
QuantumDataManager_get_financial_summary_unguarded(transactions, portfolio, current_month) ==
    QDMSummaryOf(transactions, portfolio, current_month)

QuantumDataManager_get_financial_summary(transactions, portfolio, current_month) ==
    IF transactions = <<>> THEN get_empty_summary
    ELSE QDMSummaryOf(transactions, portfolio, current_month)

\* sorted(transactions, key=date, reverse=True)[:limit]; the sort is stable,
\* so rows of one date keep their list order
RECURSIVE SortByDateDesc(_)
SortByDateDesc(s) ==
    IF s = <<>> THEN <<>>
    ELSE LET m == CHOOSE x \in MonthsOf(s) : \A y \in MonthsOf(s) : y <= x
         IN  InMonth(s, m) \o SortByDateDesc(SelectSeq(s, LAMBDA t : t.date # m))

get_recent_transactions(transactions, limit) ==
    SubSeq(SortByDateDesc(transactions), 1,
           IF Len(transactions) < limit THEN Len(transactions) ELSE limit)

\* update_cache, as save_data calls it after writing the data file
update_cache(transactions, portfolio, current_month) ==
    [summary |-> QuantumDataManager_get_financial_summary(
                     transactions, portfolio, current_month),
     recent_transactions |-> get_recent_transactions(transactions, 10)]

\* a date string that pd.to_datetime cannot parse, such as "soon"
NotADate == 0 - 1

\* pd.to_datetime(df['date']) in get_financial_summary returns: it raises
\* on a date it cannot parse
DatesParse(transactions) ==
    \A i \in DOMAIN transactions : transactions[i].date # NotADate

\* save_data: write the data file, then refresh the cache.  Both are inside
\* one try: when get_financial_summary raises in update_cache, the file has
\* been written, the except branch prints and the cache stays as it was.
save_data(transactions, portfolio, current_month) ==
    /\ qdm_file' = [transactions |-> transactions, portfolio |-> portfolio]
    /\ qdm_cache' = IF DatesParse(transactions)
                    THEN update_cache(transactions, portfolio, current_month)
                    ELSE qdm_cache

\* ---------------------------------------------- QuantumDataManager: actions
QDMadd_transaction ==
    \E t \in QTransaction, current_month \in Months :
        /\ Len(qdm_transactions) < MaxStored
        /\ qdm_transactions' = Append(qdm_transactions, t)
        /\ save_data(qdm_transactions', qdm_portfolio, current_month)
        /\ ret' = At(Returned("QuantumDataManager.add_transaction", NoValue),
                     current_month)
        /\ UNCHANGED <<fm_transactions, qdm_portfolio, ai_transactions>>

QDMupdate_portfolio ==
    \E total_value \in PortfolioValues, current_month \in Months :
        /\ qdm_portfolio' = total_value
        /\ save_data(qdm_transactions, total_value, current_month)
        /\ ret' = At(Returned("QuantumDataManager.update_portfolio", NoValue),
                     current_month)
        /\ UNCHANGED <<fm_transactions, qdm_transactions, ai_transactions>>

QDMget_financial_summary ==
    \E current_month \in Months :
        /\ ret' = At(Returned("QuantumDataManager.get_financial_summary",
                         QuantumDataManager_get_financial_summary(
                             qdm_transactions, qdm_portfolio, current_month)),
                     current_month)
        /\ UNCHANGED <<fm_transactions, qdmVars, ai_transactions>>

\* ------------------------------------- QuantumDataManager: the stored records
\* The store keeps whole Transaction objects.  A dict (the argument of
\* add_transaction, the updates of update_transaction, a record of a JSON
\* file) is a function from its keys to its values.  A Python number is its
\* value (amount) and whether it is a float (amount_float): 2 and 2.0 are
\* equal numbers and str() prints them as "2" and "2.0".  The fields tags
\* and status are carried along unread and are left out.
StoreIds == {"a"}
StoreAmounts == {0, 2}
StoreDescriptions == {"x"}

\* the numbers a caller passes as amount: the ints 0 and 2, the float 2.0
StoreNumbers ==
    [amount : StoreAmounts, amount_float : {FALSE}]
    \cup [amount : {2}, amount_float : {TRUE}]

\* readings of datetime.now(), at the resolution of a calendar month
Stamps == {1, 2}

\* the default of created_at and updated_at
None == 0

TransactionFields ==
    {"id", "date", "amount", "amount_float", "category", "type",
     "description", "created_at", "updated_at"}

RequiredFields == TransactionFields \ {"created_at", "updated_at"}

\* a faulty variant: the left dict wins
Merge_left_wins(a, b) ==
    [k \in DOMAIN a \cup DOMAIN b |-> IF k \in DOMAIN a THEN a[k] ELSE b[k]]

\* {**a, **b}
Merge(a, b) ==
    [k \in DOMAIN a \cup DOMAIN b |-> IF k \in DOMAIN b THEN b[k] ELSE a[k]]

\* Transaction(**d) raises TypeError on an unexpected key and on a missing
\* field that has no default
TransactionAccepts(d) ==
    /\ DOMAIN d \subseteq TransactionFields
    /\ RequiredFields \subseteq DOMAIN d

\* a faulty variant: created_at is always the time of construction
Transaction_created_now(d, now) ==
    [id |-> d.id, date |-> d.date, amount |-> d.amount,
     amount_float |-> d.amount_float, category |-> d.category,
     type |-> d.type, description |-> d.description,
     created_at |-> now,
     updated_at |-> IF "updated_at" \in DOMAIN d /\ d.updated_at # None
                    THEN d.updated_at ELSE now]

\* Transaction(**d) with __post_init__, for a dict the constructor accepts
Transaction(d, now) ==
    LET created_at == IF "created_at" \in DOMAIN d /\ d.created_at # None
                      THEN d.created_at ELSE now
        updated_at == IF "updated_at" \in DOMAIN d /\ d.updated_at # None
                      THEN d.updated_at ELSE created_at
    IN  [id |-> d.id, date |-> d.date, amount |-> d.amount,
         amount_float |-> d.amount_float, category |-> d.category,
         type |-> d.type, description |-> d.description,
         created_at |-> created_at, updated_at |-> updated_at]

\* dataclasses.asdict(txn): one key per field
asdict(txn) == [k \in TransactionFields |-> txn[k]]

\* str(amount) inside the f-string
PyStr(amount, amount_float) ==
    IF amount_float THEN ToString(amount) \o ".0" ELSE ToString(amount)

\* hashlib.md5(data.encode()).hexdigest()[:12]: a digest is written as the
\* text it is the digest of (two texts of the model never collide)
generate_id(data) == "md5:" \o data

\* f"{date}_{amount}_{description}"
IdText(transaction_data) ==
    ToString(transaction_data.date) \o "_"
    \o PyStr(transaction_data.amount, transaction_data.amount_float) \o "_"
    \o transaction_data.description

\* the positions of the records with a given id
IndicesOf(transactions, transaction_id) ==
    {i \in DOMAIN transactions : transactions[i].id = transaction_id}

QuantumDataManager_add_transaction(transaction_data, now) ==
    LET with_id ==
            IF "id" \in DOMAIN transaction_data THEN transaction_data
            ELSE Merge(transaction_data,
                       [id |-> generate_id(IdText(transaction_data))])
    IN  IF ~TransactionAccepts(with_id) THEN
            /\ ret' = At(Raised("QuantumDataManager.add_transaction",
                                "TypeError"), now)
            /\ UNCHANGED <<fm_transactions, qdmVars, ai_transactions>>
        ELSE
            /\ qdm_transactions'
                   = Append(qdm_transactions, Transaction(with_id, now))
            /\ save_data(qdm_transactions', qdm_portfolio, now)
            /\ ret' = At(Returned("QuantumDataManager.add_transaction",
                                  with_id.id), now)
            /\ UNCHANGED <<fm_transactions, qdm_portfolio, ai_transactions>>

QuantumDataManager_update_transaction(transaction_id, updates, now) ==
    LET found == IndicesOf(qdm_transactions, transaction_id)
    IN  IF found = {} THEN
            /\ ret' = At(Returned("QuantumDataManager.update_transaction",
                                  FALSE), now)
            /\ UNCHANGED <<fm_transactions, qdmVars, ai_transactions>>
        ELSE
        LET i == CHOOSE x \in found : \A y \in found : x <= y
            updated_data ==
                Merge(Merge(asdict(qdm_transactions[i]), updates),
                      [updated_at |-> now])
        IN  IF ~TransactionAccepts(updated_data) THEN
                /\ ret' = At(Raised("QuantumDataManager.update_transaction",
                                    "TypeError"), now)
                /\ UNCHANGED <<fm_transactions, qdmVars, ai_transactions>>
            ELSE
                /\ qdm_transactions'
                       = [qdm_transactions EXCEPT
                             ![i] = Transaction(updated_data, now)]
                /\ save_data(qdm_transactions', qdm_portfolio, now)
                /\ ret' = At(Returned("QuantumDataManager.update_transaction",
                                      TRUE), now)
                /\ UNCHANGED <<fm_transactions, qdm_portfolio,
                               ai_transactions>>

\* a faulty variant: only the first record with the id is removed
QuantumDataManager_delete_transaction_first(transaction_id, now) ==
    LET found == IndicesOf(qdm_transactions, transaction_id)
    IN  IF found # {} THEN
            LET i == CHOOSE x \in found : \A y \in found : x <= y
            IN  /\ qdm_transactions'
                       = SubSeq(qdm_transactions, 1, i - 1)
                         \o SubSeq(qdm_transactions, i + 1,
                                   Len(qdm_transactions))
                /\ save_data(qdm_transactions', qdm_portfolio, now)
                /\ ret' = At(Returned("QuantumDataManager.delete_transaction",
                                      TRUE), now)
                /\ UNCHANGED <<fm_transactions, qdm_portfolio,
                               ai_transactions>>
        ELSE
            /\ ret' = At(Returned("QuantumDataManager.delete_transaction",
                                  FALSE), now)
            /\ UNCHANGED <<fm_transactions, qdmVars, ai_transactions>>

QuantumDataManager_delete_transaction(transaction_id, now) ==
    LET kept == SelectSeq(qdm_transactions,
                          LAMBDA txn : txn.id # transaction_id)
    IN  IF Len(kept) < Len(qdm_transactions) THEN
            /\ qdm_transactions' = kept
            /\ save_data(kept, qdm_portfolio, now)
            /\ ret' = At(Returned("QuantumDataManager.delete_transaction",
                                  TRUE), now)
            /\ UNCHANGED <<fm_transactions, qdm_portfolio, ai_transactions>>
        ELSE
            /\ ret' = At(Returned("QuantumDataManager.delete_transaction",
                                  FALSE), now)
            /\ UNCHANGED <<fm_transactions, qdmVars, ai_transactions>>

\* a faulty variant: the portfolio is taken over before the records are
\* looked at
QuantumDataManager_import_data_portfolio_first(imported_data, now) ==
    IF ~imported_data.readable THEN
        /\ ret' = At(Returned("QuantumDataManager.import_data", FALSE), now)
        /\ UNCHANGED <<fm_transactions, qdmVars, ai_transactions>>
    ELSE IF "transactions" \in DOMAIN imported_data
            /\ \E i \in DOMAIN imported_data.transactions :
                   ~TransactionAccepts(imported_data.transactions[i])
    THEN
        /\ qdm_portfolio'
               = IF "portfolio" \in DOMAIN imported_data
                 THEN imported_data.portfolio
                 ELSE qdm_portfolio
        /\ ret' = At(Returned("QuantumDataManager.import_data", FALSE), now)
        /\ UNCHANGED <<fm_transactions, qdm_transactions, qdm_cache, qdm_file,
                       ai_transactions>>
    ELSE
        /\ qdm_transactions'
               = IF "transactions" \in DOMAIN imported_data
                 THEN [i \in DOMAIN imported_data.transactions |->
                          Transaction(imported_data.transactions[i], now)]
                 ELSE qdm_transactions
        /\ qdm_portfolio'
               = IF "portfolio" \in DOMAIN imported_data
                 THEN imported_data.portfolio
                 ELSE qdm_portfolio
        /\ save_data(qdm_transactions', qdm_portfolio', now)
        /\ ret' = At(Returned("QuantumDataManager.import_data", TRUE), now)
        /\ UNCHANGED <<fm_transactions, ai_transactions>>

\* import_data(file_path, 'json').  imported_data is what json.load gave:
\* [readable |-> FALSE] stands for a missing file or invalid JSON; otherwise
\* the keys 'transactions' and 'portfolio' are there or not.
QuantumDataManager_import_data(imported_data, now) ==
    IF ~imported_data.readable THEN
        /\ ret' = At(Returned("QuantumDataManager.import_data", FALSE), now)
        /\ UNCHANGED <<fm_transactions, qdmVars, ai_transactions>>
    ELSE IF "transactions" \in DOMAIN imported_data
            /\ \E i \in DOMAIN imported_data.transactions :
                   ~TransactionAccepts(imported_data.transactions[i])
    THEN
        \* the list comprehension raises before anything is assigned
        /\ ret' = At(Returned("QuantumDataManager.import_data", FALSE), now)
        /\ UNCHANGED <<fm_transactions, qdmVars, ai_transactions>>
    ELSE
        /\ qdm_transactions'
               = IF "transactions" \in DOMAIN imported_data
                 THEN [i \in DOMAIN imported_data.transactions |->
                          Transaction(imported_data.transactions[i], now)]
                 ELSE qdm_transactions
        /\ qdm_portfolio'
               = IF "portfolio" \in DOMAIN imported_data
                 THEN imported_data.portfolio
                 ELSE qdm_portfolio
        /\ save_data(qdm_transactions', qdm_portfolio', now)
        /\ ret' = At(Returned("QuantumDataManager.import_data", TRUE), now)
        /\ UNCHANGED <<fm_transactions, ai_transactions>>

\* initialize_sample_data: the three demonstration records (all dated
\* January 2024) and the demonstration portfolio's total_value
sample_transactions ==
    <<[id |-> generate_id("salary_jan"), date |-> 1, amount |-> 75000,
       amount_float |-> FALSE, category |-> "Income", type |-> "Salary",
       description |-> "Monthly Salary"],
      [id |-> generate_id("grocery_jan"), date |-> 1, amount |-> 8500,
       amount_float |-> FALSE, category |-> "Expense", type |-> "Food",
       description |-> "Grocery Shopping"],
      [id |-> generate_id("freelance_jan"), date |-> 1, amount |-> 25000,
       amount_float |-> FALSE, category |-> "Income", type |-> "Freelance",
       description |-> "Web Development Project"]>>

SamplePortfolioValue == 1284732

\* A new QuantumDataManager on the same data file: load_primary_data for a
\* file that exists and that save_data wrote, then load_cache (the cache
\* file holds what update_cache saved last).
QuantumDataManager_load_data(now) ==
    IF \E i \in DOMAIN qdm_file.transactions :
           ~TransactionAccepts(qdm_file.transactions[i])
    THEN
        \* except Exception: initialize_sample_data(), which ends in save_data
        /\ qdm_transactions'
               = [i \in DOMAIN sample_transactions |->
                     Transaction(sample_transactions[i], now)]
        /\ qdm_portfolio' = SamplePortfolioValue
        /\ save_data(qdm_transactions', qdm_portfolio', now)
        /\ ret' = At(Returned("QuantumDataManager.load_data", NoValue), now)
        /\ UNCHANGED <<fm_transactions, ai_transactions>>
    ELSE
        /\ qdm_transactions'
               = [i \in DOMAIN qdm_file.transactions |->
                     Transaction(qdm_file.transactions[i], now)]
        /\ qdm_portfolio' = qdm_file.portfolio
        /\ ret' = At(Returned("QuantumDataManager.load_data", NoValue), now)
        /\ UNCHANGED <<fm_transactions, qdm_cache, qdm_file, ai_transactions>>

\* ----------------------------------- QuantumDataManager: store actions
\* the dicts handed to add_transaction: with an id of the caller or none
StoreInputNoId ==
    {Merge(number, rest) :
        number \in StoreNumbers,
        rest \in [date : {1}, category : {"Expense"}, type : {"Food"},
                  description : StoreDescriptions]}

StoreInputWithId ==
    {Merge(transaction_data, with) :
        transaction_data \in StoreInputNoId, with \in [id : StoreIds]}

\* the updates handed to update_transaction
StoreUpdates ==
    {EmptyMap}
    \cup [amount : StoreAmounts, amount_float : {FALSE}]
    \cup [id : StoreIds]
    \cup [created_at : Stamps]

\* the ids a caller asks for: the ids in the store and the caller's own
TargetIds ==
    StoreIds \cup {qdm_transactions[i].id : i \in DOMAIN qdm_transactions}

\* a record of a file that FinanceManager.save_data wrote: 'subcategory'
\* is not a field of this Transaction and 'type' is missing
ForeignRecord ==
    [date |-> 1, amount |-> 2, category |-> "Expense",
     subcategory |-> "Food", description |-> "x", id |-> "a"]

ImportRecords ==
    [id : StoreIds, date : {1}, amount : StoreAmounts, amount_float : {FALSE},
     category : {"Expense"}, type : {"Food"}, description : StoreDescriptions]

\* what import_data finds at file_path
ImportTransactionLists ==
    {<<>>, <<ForeignRecord>>}
    \cup {<<r>> : r \in ImportRecords}
    \cup {<<r, ForeignRecord>> : r \in ImportRecords}

ImportFiles ==
    {[readable |-> FALSE], [readable |-> TRUE], [readable |-> TRUE, portfolio |-> 5]}
    \cup {[readable |-> TRUE, transactions |-> l] :
              l \in ImportTransactionLists}
    \cup {[readable |-> TRUE, transactions |-> l, portfolio |-> 5] :
              l \in ImportTransactionLists}

Store_add_transaction ==
    \E transaction_data \in StoreInputNoId \cup StoreInputWithId,
       now \in Stamps :
        /\ Len(qdm_transactions) < MaxStored
        /\ QuantumDataManager_add_transaction(transaction_data, now)

\* the dicts handed to add_transaction by a caller that does not check the
\* date
Store_add_unchecked ==
    \E transaction_data
           \in [date : {1, NotADate}, amount : {2}, amount_float : {FALSE},
                category : {"Expense"}, type : {"Food"},
                description : StoreDescriptions],
       now \in Stamps :
        /\ Len(qdm_transactions) < MaxStored
        /\ QuantumDataManager_add_transaction(transaction_data, now)

Store_update_transaction ==
    \E transaction_id \in TargetIds, updates \in StoreUpdates,
       now \in Stamps :
        QuantumDataManager_update_transaction(transaction_id, updates, now)

Store_delete_transaction ==
    \E transaction_id \in TargetIds, now \in Stamps :
        QuantumDataManager_delete_transaction(transaction_id, now)

Store_import_data ==
    \E imported_data \in ImportFiles, now \in Stamps :
        QuantumDataManager_import_data(imported_data, now)

Store_load_data ==
    \E now \in Stamps : QuantumDataManager_load_data(now)

\* ========================================================= AIFinancialEngine
\* a transaction dict, reduced to the keys the engine reads; prepare_
\* transaction_data adds the month column, which is the date itself here
AITransaction == [date : Months, amount : Amounts, category : Categories,
                  type : Labels]

\* a faulty variant: the latest month comes first
MonthlySums_latest_first(rows) ==
    LET ms == SortedMonths(MonthsOf(rows))
    IN  [i \in 1..Len(ms) |-> SumAmount(InMonth(rows, ms[Len(ms) + 1 - i]))]

\* groupby('month')['amount'].sum() of a list of rows, in chronological
\* order
MonthlySums(rows) ==
    LET ms == SortedMonths(MonthsOf(rows))
    IN  [i \in 1..Len(ms) |-> SumAmount(InMonth(rows, ms[i]))]

\* The short result has the keys trend and change_percent only.
\* change_percent is returned rounded to one decimal (in tenths here); the
\* trend is decided on the unrounded value.
calculate_monthly_trend(df) ==
    LET monthly_data == MonthlySums(SelectSeq(df, IsExpense))
        k == Len(monthly_data)
    IN  IF k < 2 THEN [trend |-> "stable", change_percent |-> 0]
        ELSE
        LET current == monthly_data[k]
            previous == monthly_data[k - 1]
            change_percent ==
                IF previous # 0
                THEN Rat((current - previous) * 100, previous)
                ELSE RatInt(0)
        IN  [trend |-> IF RatLt(RatInt(5), change_percent) THEN "increasing"
                       ELSE IF RatLt(change_percent, RatInt(0 - 5))
                       THEN "decreasing" ELSE "stable",
             change_percent |-> Round1(change_percent),
             current_month |-> current,
             average_monthly |-> Rat(SumSeq(monthly_data), k)]

\* a faulty variant: no cap at 100
calculate_diversity_score_uncapped(df) ==
    LET income_sources ==
            Cardinality({df[i].type : i \in {j \in DOMAIN df : IsIncome(df[j])}})
    IN  RatInt(income_sources * 20)

calculate_diversity_score(df) ==
    LET income_sources ==
            Cardinality({df[i].type : i \in {j \in DOMAIN df : IsIncome(df[j])}})
    IN  RatMin(RatInt(income_sources * 20), RatInt(100))

calculate_growth_score(df) ==
    LET monthly_income == MonthlySums(SelectSeq(df, IsIncome))
        k == Len(monthly_income)
    IN  IF k < 2 THEN RatInt(50)
        ELSE LET growth_rate == Rat((monthly_income[k] - monthly_income[1]) * 100,
                                    monthly_income[1])
             IN  RatMin(RatMax(RatAdd(RatScale(growth_rate, 5), RatInt(50)),
                               RatInt(0)),
                        RatInt(100))

\* a faulty variant: the expense rule fires at 80 as well
generate_health_recommendations_inclusive(breakdown) ==
    (IF breakdown.savings_rate < 200
     THEN <<"Increase savings rate to at least 20% of income">> ELSE <<>>)
    \o (IF breakdown.expense_ratio >= 800
        THEN <<"Reduce expenses to below 80% of income">> ELSE <<>>)
    \o (IF breakdown.diversity_score < 600
        THEN <<"Diversify income sources for better stability">> ELSE <<>>)
    \o (IF breakdown.savings_score < 700
        THEN <<"Focus on building emergency fund">> ELSE <<>>)

generate_health_recommendations(breakdown) ==
    (IF breakdown.savings_rate < 200
     THEN <<"Increase savings rate to at least 20% of income">> ELSE <<>>)
    \o (IF breakdown.expense_ratio > 800
        THEN <<"Reduce expenses to below 80% of income">> ELSE <<>>)
    \o (IF breakdown.diversity_score < 600
        THEN <<"Diversify income sources for better stability">> ELSE <<>>)
    \o (IF breakdown.savings_score < 700
        THEN <<"Focus on building emergency fund">> ELSE <<>>)

calculate_financial_health_score(transactions) ==
    IF transactions = <<>> THEN
        [score |-> 0, breakdown |-> EmptyMap, recommendations |-> <<>>]
    ELSE
    LET df == transactions
        total_income == SumAmount(SelectSeq(df, IsIncome))
        total_expenses == SumAmount(SelectSeq(df, IsExpense))
    IN  IF total_income = 0 THEN
            [score |-> 0, breakdown |-> EmptyMap, recommendations |-> <<>>]
        ELSE
        LET savings_rate == Rat((total_income - total_expenses) * 100,
                                total_income)
            expense_ratio == Rat(total_expenses * 100, total_income)
            savings_score == RatMin(RatScale(savings_rate, 2), RatInt(100))
            stability_score == IF Len(df) > 10 THEN RatInt(80) ELSE RatInt(40)
            diversity_score == calculate_diversity_score(df)
            growth_score == calculate_growth_score(df)
            \* 0.4, 0.3, 0.2 and 0.1 are 4, 3, 2 and 1 tenths; the sum is taken
            \* over the product of the four denominators
            overall_score ==
                Rat(4 * savings_score.n * stability_score.d
                        * diversity_score.d * growth_score.d
                      + 3 * stability_score.n * savings_score.d
                          * diversity_score.d * growth_score.d
                      + 2 * diversity_score.n * savings_score.d
                          * stability_score.d * growth_score.d
                      + growth_score.n * savings_score.d
                          * stability_score.d * diversity_score.d,
                    10 * savings_score.d * stability_score.d
                       * diversity_score.d * growth_score.d)
            breakdown ==
                [savings_rate |-> Round1(savings_rate),
                 expense_ratio |-> Round1(expense_ratio),
                 savings_score |-> Round1(savings_score),
                 stability_score |-> Round1(stability_score),
                 diversity_score |-> Round1(diversity_score),
                 growth_score |-> Round1(growth_score)]
        IN  [score |-> Round1(overall_score),
             breakdown |-> breakdown,
             recommendations |-> generate_health_recommendations(breakdown)]

\* a faulty variant: the whole list
LastN_all(s, n) == s

\* the last n entries of a list: Series.tail(n)
LastN(s, n) == IF Len(s) <= n THEN s ELSE SubSeq(s, Len(s) - n + 1, Len(s))

\* a faulty variant: two expenses are taken to be enough
TooFewExpenses_two(expense_df) == Len(expense_df) < 2

\* if len(expense_df) < 3
TooFewExpenses(expense_df) == Len(expense_df) < 3

forecast_spending(df, months) ==
    LET expense_df == SelectSeq(df, IsExpense)
    IN  IF TooFewExpenses(expense_df) THEN <<>>
        ELSE
        LET monthly_expenses == MonthlySums(expense_df)
            last_values == LastN(monthly_expenses, 3)
            avg_spending == Rat(SumSeq(last_values), Len(last_values))
        IN  [j \in 1..months |->
                \* the i of the code is j - 1
                [days_ahead |-> 30 * j,
                 predicted_amount |->
                     Rat(avg_spending.n * (100 + 2 * (j - 1)),
                         avg_spending.d * 100),
                 \* max(0.7 - i * 0.1, 0.3)
                 confidence |->
                     RatMax(Rat(7 - (j - 1), 10), Rat(3, 10))]]

\* amounts.mean() and amounts.std() (the sample standard deviation) of n
\* amounts with sum S: mean = S / n and std^2 = Q / (n^2 * (n - 1)) with
\* Q = sum of (n*a - S)^2.  With one amount the std is NaN.
AmountStats(rows) ==
    LET n == Len(rows)
        S == SumAmount(rows)
    IN  [n |-> n, S |-> S,
         Q |-> SumSeq([i \in 1..n |-> (n * rows[i].amount - S)
                                      * (n * rows[i].amount - S)]),
         std_is_nan |-> n < 2]

\* a faulty variant: the standard deviation is never found to be 0
StdIsZero_unchecked(st) == FALSE

\* if std_amount == 0 (NaN == 0 is False)
StdIsZero(st) == ~st.std_is_nan /\ st.Q = 0

\* a faulty variant: the population standard deviation
ZScoreSq_population(st, amount) ==
    Rat((st.n * amount - st.S) * (st.n * amount - st.S) * st.n, st.Q)

\* the square of z_score = abs((amount - mean) / std), for a std that is a
\* non-zero number
ZScoreSq(st, amount) ==
    Rat((st.n * amount - st.S) * (st.n * amount - st.S) * (st.n - 1), st.Q)

\* z_score > 2.  A z-score that is NaN (the std is NaN, or the division is
\* 0 / 0) is not greater than 2; x / 0 with x # 0 is infinite.
ZScoreAbove2(st, amount) ==
    IF st.std_is_nan THEN FALSE
    ELSE IF st.Q = 0 THEN st.n * amount # st.S
    ELSE RatLt(RatInt(4), ZScoreSq(st, amount))

\* the loop over the expense rows.  zero_std_divisions counts the rows whose
\* z-score was computed by dividing by a standard deviation equal to 0.
AnomalyRows(expense_df, st) ==
    LET flagged == SelectSeq(expense_df,
                             LAMBDA row : ZScoreAbove2(st, row.amount))
    IN  [anomalies |->
            [i \in 1..Len(flagged) |->
                [date |-> flagged[i].date,
                 amount |-> flagged[i].amount,
                 z_score_sq |-> IF st.std_is_nan \/ st.Q = 0 THEN RatInt(0)
                                ELSE ZScoreSq(st, flagged[i].amount),
                 type |-> IF flagged[i].amount * st.n > st.S
                          THEN "high_spending" ELSE "low_spending"]],
         zero_std_divisions |->
            IF ~st.std_is_nan /\ st.Q = 0 THEN Len(expense_df) ELSE 0]

detect_anomalies(df) ==
    LET expense_df == SelectSeq(df, IsExpense)
    IN  IF expense_df = <<>> THEN
            [anomalies |-> <<>>, zero_std_divisions |-> 0]
        ELSE
        LET st == AmountStats(expense_df)
        IN  IF StdIsZero(st) THEN
                [anomalies |-> <<>>, zero_std_divisions |-> 0]
            ELSE AnomalyRows(expense_df, st)

\* expected_return is in tenths of a percent
base_recommendations ==
    [conservative |->
        <<[asset |-> "Government Bonds", allocation |-> 60,
           expected_return |-> 55],
          [asset |-> "Blue Chip Stocks", allocation |-> 25,
           expected_return |-> 82],
          [asset |-> "Fixed Deposits", allocation |-> 15,
           expected_return |-> 60]>>,
     medium |->
        <<[asset |-> "Diversified Stocks", allocation |-> 50,
           expected_return |-> 105],
          [asset |-> "Corporate Bonds", allocation |-> 30,
           expected_return |-> 78],
          [asset |-> "Real Estate", allocation |-> 20,
           expected_return |-> 92]>>,
     aggressive |->
        <<[asset |-> "Growth Stocks", allocation |-> 40,
           expected_return |-> 152],
          [asset |-> "Technology ETFs", allocation |-> 30,
           expected_return |-> 128],
          [asset |-> "Cryptocurrency", allocation |-> 20,
           expected_return |-> 250],
          [asset |-> "Emerging Markets", allocation |-> 10,
           expected_return |-> 185]>>]

\* base_recommendations.get(risk_tolerance, base_recommendations['medium'])
BaseFor(risk_tolerance) ==
    IF risk_tolerance \in DOMAIN base_recommendations
    THEN base_recommendations[risk_tolerance]
    ELSE base_recommendations.medium

\* values np.random.uniform(0.7, 0.95) can return, in hundredths
ConfidenceDraws == {70, 80}

\* draws[i] is what np.random.uniform returned in the i-th round of the
\* loop; the portfolio is not read
generate_investment_recommendations(portfolio, risk_tolerance, draws) ==
    LET recommendations == BaseFor(risk_tolerance)
    IN  [i \in DOMAIN recommendations |->
            [asset |-> recommendations[i].asset,
             allocation |-> recommendations[i].allocation,
             expected_return |-> recommendations[i].expected_return,
             confidence |-> draws[i],
             time_horizon |-> IF risk_tolerance = "aggressive"
                              THEN "long-term" ELSE "medium-term"]]

\* ----------------------------------------------- AIFinancialEngine: actions
RECURSIVE ListsUpTo(_, _)
ListsUpTo(S, n) ==
    IF n = 0 THEN {<<>>}
    ELSE ListsUpTo(S, n - 1) \cup [1..n -> S]

AIInit ==
    /\ fm_transactions = <<>>
    /\ qdm_transactions = <<>>
    /\ qdm_portfolio = 0
    /\ qdm_cache = [summary |-> NoValue, recent_transactions |-> <<>>]
    /\ qdm_file = [transactions |-> <<>>, portfolio |-> 0]
    /\ ai_transactions \in ListsUpTo(AITransaction, MaxRows)
    /\ ret = Returned("__init__", NoValue)

AIcalculate_financial_health_score ==
    /\ ret' = Returned("calculate_financial_health_score",
                       calculate_financial_health_score(ai_transactions))
    /\ UNCHANGED <<fm_transactions, qdmVars, ai_transactions>>

\* Inputs for calculate_financial_health_score alone: a varied list, alone
\* or followed by ten income rows of month 1 from six sources, so that lists
\* of 10 and of more than 10 transactions and more than five income sources
\* occur.
HealthInit ==
    /\ fm_transactions = <<>>
    /\ qdm_transactions = <<>>
    /\ qdm_portfolio = 0
    /\ qdm_cache = [summary |-> NoValue, recent_transactions |-> <<>>]
    /\ qdm_file = [transactions |-> <<>>, portfolio |-> 0]
    /\ LET IncomeSources == <<"Salary", "Freelance", "Investment", "Rent",
                              "Bonus", "Gift">>
           RoutineIncome ==
               [i \in 1..10 |->
                   [date |-> 1, amount |-> 1, category |-> "Income",
                    type |-> IncomeSources[((i - 1) % 6) + 1]]]
       IN  \E varied \in ListsUpTo(AITransaction, MaxHealthRows) :
              ai_transactions \in {varied, varied \o RoutineIncome}
    /\ ret = Returned("__init__", NoValue)

\* Inputs whose ratios lie next to the thresholds of the recommendations:
\* 321 of 401 is 80.05 percent, which round(x, 1) takes to 80.0.
AdviceInit ==
    /\ fm_transactions = <<>>
    /\ qdm_transactions = <<>>
    /\ qdm_portfolio = 0
    /\ qdm_cache = [summary |-> NoValue, recent_transactions |-> <<>>]
    /\ qdm_file = [transactions |-> <<>>, portfolio |-> 0]
    /\ ai_transactions
         \in ListsUpTo([date : {1}, amount : {80, 321, 401},
                        category : Categories, type : Labels],
                       MaxAdviceRows)
    /\ ret = Returned("__init__", NoValue)

\* Inputs for detect_anomalies on which the kind of standard deviation
\* matters: of the six expenses 1, 1, 1, 1, 2, 4 the last one is 1.93 sample
\* and 2.11 population standard deviations away from the mean.  An income
\* row has the largest amount.
OutlierInit ==
    /\ fm_transactions = <<>>
    /\ qdm_transactions = <<>>
    /\ qdm_portfolio = 0
    /\ qdm_cache = [summary |-> NoValue, recent_transactions |-> <<>>]
    /\ qdm_file = [transactions |-> <<>>, portfolio |-> 0]
    /\ ai_transactions
         \in ListsUpTo([date : {1}, amount : {1, 2, 4},
                        category : {"Expense"}, type : {"Food"}]
                       \cup [date : {1}, amount : {4},
                             category : {"Income"}, type : {"Food"}],
                       MaxOutlierRows)
    /\ ret = Returned("__init__", NoValue)

AIforecast_spending ==
    \E months \in ForecastMonths :
        /\ ret' = Returned("forecast_spending",
                           forecast_spending(ai_transactions, months))
        /\ UNCHANGED <<fm_transactions, qdmVars, ai_transactions>>

\* Inputs for forecast_spending alone: four calendar months, so that the
\* trailing three differ from all of them, and forecasts long enough for the
\* confidence to reach its floor.
ForecastInit ==
    /\ fm_transactions = <<>>
    /\ qdm_transactions = <<>>
    /\ qdm_portfolio = 0
    /\ qdm_cache = [summary |-> NoValue, recent_transactions |-> <<>>]
    /\ qdm_file = [transactions |-> <<>>, portfolio |-> 0]
    /\ ai_transactions
         \in ListsUpTo([date : {1, 2, 3, 4}, amount : Amounts,
                        category : Categories, type : {"Food"}],
                       MaxForecastRows)
    /\ ret = Returned("__init__", NoValue)

\* ret.value keeps the months argument next to the returned list
Forecast_forecast_spending ==
    \E months \in {0, 2, 5} :
        /\ ret' = Returned("forecast_spending",
                           [months |-> months,
                            forecast |->
                                forecast_spending(ai_transactions, months)])
        /\ UNCHANGED <<fm_transactions, qdmVars, ai_transactions>>

AIdetect_anomalies ==
    /\ ret' = Returned("detect_anomalies", detect_anomalies(ai_transactions))
    /\ UNCHANGED <<fm_transactions, qdmVars, ai_transactions>>

\* ret.value keeps the arguments next to the returned list
AIgenerate_investment_recommendations ==
    \E portfolio \in PortfolioValues,
       risk_tolerance \in {"conservative", "medium", "aggressive", "high"} :
        \E draws \in [DOMAIN BaseFor(risk_tolerance) -> ConfidenceDraws] :
            /\ ret' = Returned("generate_investment_recommendations",
                          [portfolio |-> portfolio,
                           risk_tolerance |-> risk_tolerance,
                           recommendations |->
                               generate_investment_recommendations(
                                   portfolio, risk_tolerance, draws)])
            /\ UNCHANGED <<fm_transactions, qdmVars, ai_transactions>>

\* Inputs for calculate_monthly_trend alone: three calendar months, and
\* amounts whose month-over-month changes fall on both sides of +5% and
\* -5% and on them (20 to 21, 20 to 19); an amount of 0 gives a month
\* whose total is 0.
TrendInit ==
    /\ fm_transactions = <<>>
    /\ qdm_transactions = <<>>
    /\ qdm_portfolio = 0
    /\ qdm_cache = [summary |-> NoValue, recent_transactions |-> <<>>]
    /\ qdm_file = [transactions |-> <<>>, portfolio |-> 0]
    /\ ai_transactions
         \in ListsUpTo([date : {1, 2, 3}, amount : {0, 19, 20, 21},
                        category : Categories, type : {"Food"}],
                       MaxTrendRows)
    /\ ret = Returned("__init__", NoValue)

AIcalculate_monthly_trend ==
    /\ ret' = Returned("calculate_monthly_trend",
                       calculate_monthly_trend(ai_transactions))
    /\ UNCHANGED <<fm_transactions, qdmVars, ai_transactions>>

\* Inputs for detect_anomalies alone: a z-score above 2 needs at least six
\* expense rows, so the lists are longer and their rows vary only in amount
\* and category.
AnomalyInit ==
    /\ fm_transactions = <<>>
    /\ qdm_transactions = <<>>
    /\ qdm_portfolio = 0
    /\ qdm_cache = [summary |-> NoValue, recent_transactions |-> <<>>]
    /\ qdm_file = [transactions |-> <<>>, portfolio |-> 0]
    /\ ai_transactions
         \in ListsUpTo([date : {1}, amount : Amounts, category : Categories,
                        type : {"Food"}],
                       MaxAnomalyRows)
    /\ ret = Returned("__init__", NoValue)

\* ============================================================= DataValidator
\* A line typed at the prompt is the sequence of its characters.
LowerCase ==
    <<"a", "b", "c", "d", "e", "f", "g", "h", "i", "j", "k", "l", "m",
      "n", "o", "p", "q", "r", "s", "t", "u", "v", "w", "x", "y", "z">>

UpperCase ==
    <<"A", "B", "C", "D", "E", "F", "G", "H", "I", "J", "K", "L", "M",
      "N", "O", "P", "Q", "R", "S", "T", "U", "V", "W", "X", "Y", "Z">>

DigitChars == <<"0", "1", "2", "3", "4", "5", "6", "7", "8", "9">>

\* str.upper()
Upper(s) ==
    [i \in DOMAIN s |->
        IF \E k \in DOMAIN LowerCase : LowerCase[k] = s[i]
        THEN UpperCase[CHOOSE k \in DOMAIN LowerCase : LowerCase[k] = s[i]]
        ELSE s[i]]

\* str.strip()
RECURSIVE Strip(_)
Strip(s) ==
    IF s = <<>> THEN s
    ELSE IF Head(s) = " " THEN Strip(Tail(s))
    ELSE IF s[Len(s)] = " " THEN Strip(SubSeq(s, 1, Len(s) - 1))
    ELSE s

\* a call that printed its error message and prompts again
Prompting(op, line) ==
    [op |-> op, status |-> "prompt",
     value |-> [line |-> line, result |-> NoValue], now |-> 0]

\* ret.value keeps the line that was read next to the value returned
ReturnedFor(op, line, result) ==
    Returned(op, [line |-> line, result |-> result])

\* one round of the loop of get_category
get_category(line) ==
    LET category == Upper(Strip(line))
    IN  IF category \in {<<"I">>, <<"I", "N", "C", "O", "M", "E">>}
        THEN ReturnedFor("get_category", line, "I")
        ELSE IF category
                  \in {<<"E">>, <<"E", "X", "P", "E", "N", "S", "E">>}
        THEN ReturnedFor("get_category", line, "E")
        ELSE Prompting("get_category", line)

\* re.sub(r'[₹$,]', '', amount_str)
RemoveCurrency(s) == SelectSeq(s, LAMBDA c : c \notin {"₹", "$", ","})

IsDigits(s) ==
    \A i \in DOMAIN s : \E k \in DOMAIN DigitChars : DigitChars[k] = s[i]

RECURSIVE DigitsValue(_)
DigitsValue(s) ==
    IF s = <<>> THEN 0
    ELSE 10 * DigitsValue(SubSeq(s, 1, Len(s) - 1))
         + (CHOOSE k \in DOMAIN DigitChars : DigitChars[k] = s[Len(s)]) - 1

\* float(text) for the texts of the model: optional blanks around, an
\* optional sign, then "nan" in any case or digits with an optional point
\* and at most three digits after it.  A number is its value in
\* thousandths; anything else raises ValueError.
ParseFloat(text) ==
    LET t == Strip(text)
        signed == t # <<>> /\ Head(t) \in {"-", "+"}
        body == IF signed THEN Tail(t) ELSE t
        sign == IF signed /\ Head(t) = "-" THEN 0 - 1 ELSE 1
        points == {i \in DOMAIN body : body[i] = "."}
        point == IF points = {} THEN Len(body) + 1
                 ELSE CHOOSE i \in points : \A j \in points : i <= j
        whole == SubSeq(body, 1, point - 1)
        fraction == SubSeq(body, point + 1, Len(body))
        scale == IF Len(fraction) = 0 THEN 1000
                 ELSE IF Len(fraction) = 1 THEN 100
                 ELSE IF Len(fraction) = 2 THEN 10 ELSE 1
    IN  IF Upper(body) = <<"N", "A", "N">> THEN
            [error |-> FALSE, nan |-> TRUE, thousandths |-> 0]
        ELSE IF /\ IsDigits(whole) /\ IsDigits(fraction)
                /\ Len(whole) + Len(fraction) > 0
                /\ Len(fraction) <= 3
        THEN [error |-> FALSE, nan |-> FALSE,
              thousandths |->
                  sign * (1000 * DigitsValue(whole)
                          + scale * DigitsValue(fraction))]
        ELSE [error |-> TRUE, nan |-> FALSE, thousandths |-> 0]

\* round(amount, 2) of a positive amount, in hundredths.  A third decimal
\* of 5 is not among the amounts of the model (the result then depends on
\* the binary value of the float).
Round2(thousandths) ==
    CASE thousandths % 10 < 5 -> thousandths \div 10
      [] thousandths % 10 > 5 -> thousandths \div 10 + 1

\* one round of the loop of get_amount.  NaN <= 0 is False, and
\* round(NaN, 2) is NaN.
get_amount(line) ==
    LET amount == ParseFloat(RemoveCurrency(Strip(line)))
    IN  IF amount.error THEN Prompting("get_amount", line)
        ELSE IF ~amount.nan /\ amount.thousandths <= 0
        THEN Prompting("get_amount", line)
        ELSE ReturnedFor("get_amount", line,
                 IF amount.nan THEN [nan |-> TRUE, hundredths |-> 0]
                 ELSE [nan |-> FALSE,
                       hundredths |-> Round2(amount.thousandths)])

\* ---------------------------------------------------- DataValidator: input
CategoryLines ==
    {<<"I">>, <<"i">>, <<" ", "e", " ">>, <<"E">>,
     <<"I", "n", "c", "o", "m", "e">>, <<"I", "N", "C", "O", "M", "E">>,
     <<"e", "x", "p", "e", "n", "s", "e">>,
     <<"E", "x", "p", "e", "n", "s", "e", " ">>,
     <<>>, <<" ">>, <<"x">>, <<"I", "n">>, <<"I", "E">>,
     <<"i", "n", "c", "o", "m", "e", "s">>, <<"1">>}

\* the lines typed at the amount prompt: blanks, a sign or a currency
\* symbol, a whole part and a fraction, put together in every way
AmountLines ==
    {lead \o symbol \o whole \o fraction :
        lead \in {<<>>, <<" ">>},
        symbol \in {<<>>, <<"₹">>, <<"$">>, <<"-">>},
        whole \in {<<>>, <<"0">>, <<"2">>, <<"1", ",", "5", "0", "0">>},
        fraction \in {<<>>, <<".">>, <<".", "5">>, <<".", "0", "0", "4">>,
                      <<".", "0", "0", "6">>}}
    \cup {<<"a", "b", "c">>, <<"n", "a", "n">>, <<"1", ".", "2", ".", "3">>}

Entry_get_category ==
    \E line \in CategoryLines :
        /\ ret' = get_category(line)
        /\ UNCHANGED <<fm_transactions, qdmVars, ai_transactions>>

Entry_get_amount ==
    \E line \in AmountLines :
        /\ ret' = get_amount(line)
        /\ UNCHANGED <<fm_transactions, qdmVars, ai_transactions>>

\* ------------------------------------------------- FinanceManager: actions
Init ==
    /\ fm_transactions = <<>>
    /\ qdm_transactions = <<>>
    /\ qdm_portfolio = 0
    /\ qdm_cache = [summary |-> NoValue, recent_transactions |-> <<>>]
    /\ qdm_file = [transactions |-> <<>>, portfolio |-> 0]
    /\ ai_transactions = <<>>
    /\ ret = Returned("__init__", NoValue)

FMadd_transaction ==
    \E t \in FMTransaction :
        /\ Len(fm_transactions) < MaxTxns
        /\ fm_transactions' = Append(fm_transactions, t)
        /\ ret' = Returned("FinanceManager.add_transaction", NoValue)
        /\ UNCHANGED <<qdmVars, ai_transactions>>

\* pd.Timestamp.now() is read once per call: current_month
FMget_financial_summary ==
    \E current_month \in Months :
        /\ ret' = At(FinanceManager_get_financial_summary(fm_transactions,
                                                          current_month),
                     current_month)
        /\ UNCHANGED <<fm_transactions, qdmVars, ai_transactions>>

\* ------------------------------------------- FinanceManager: persistence
\* finance_core.Transaction with its description and id.  hash(description)
\* is salted per interpreter process: hash_seed is the salt of the process
\* that constructs the object.
FMDescriptions == {"x", "y"}
HashSeeds == {1, 2}

\* the keyword arguments of Transaction(...): 'id' is given or left out
FMArguments ==
    [date : {1}, amount : {1}, category : {"Expense"}, subcategory : {"Food"},
     description : FMDescriptions]
    \cup [date : {1}, amount : {1}, category : {"Expense"},
          subcategory : {"Food"}, description : FMDescriptions, id : {"a"}]

\* Transaction(**d) with __post_init__: id None becomes
\* f"{date}_{amount}_{hash(description)}"
finance_core_Transaction(d, hash_seed) ==
    [date |-> d.date, amount |-> d.amount, category |-> d.category,
     subcategory |-> d.subcategory, description |-> d.description,
     id |-> IF "id" \in DOMAIN d THEN d.id
            ELSE ToString(d.date) \o "_" \o ToString(d.amount) \o "_hash"
                 \o ToString(hash_seed) \o ":" \o d.description]

\* the 'transactions' array save_data writes
FinanceManager_save_data(transactions) ==
    [i \in DOMAIN transactions |->
        [date |-> transactions[i].date, amount |-> transactions[i].amount,
         category |-> transactions[i].category,
         subcategory |-> transactions[i].subcategory,
         description |-> transactions[i].description,
         id |-> transactions[i].id]]

\* load_data on the array of an existing, readable file
FinanceManager_load_data(data, hash_seed) ==
    [i \in DOMAIN data |-> finance_core_Transaction(data[i], hash_seed)]

\* add_transaction of an object the caller constructed: append, save_data
FMStore_add_transaction ==
    \E d \in FMArguments, hash_seed \in HashSeeds :
        /\ Len(fm_transactions) < MaxTxns
        /\ fm_transactions'
               = Append(fm_transactions, finance_core_Transaction(d, hash_seed))
        /\ ret' = Returned("FinanceManager.add_transaction", NoValue)
        /\ UNCHANGED <<qdmVars, ai_transactions>>

\* A new FinanceManager, in a new process, on the data file: every
\* add_transaction ends in save_data, so the file holds
\* save_data(transactions).
FMStore_load_data ==
    \E hash_seed \in HashSeeds :
        /\ fm_transactions'
               = FinanceManager_load_data(
                     FinanceManager_save_data(fm_transactions), hash_seed)
        /\ ret' = At(Returned("FinanceManager.load_data", NoValue), hash_seed)
        /\ UNCHANGED <<qdmVars, ai_transactions>>

\* ret.value keeps the number of months asked for next to the result
WithMonths(r, months) ==
    IF r.status = "ok"
    THEN [r EXCEPT !.value = Merge(r.value, [months |-> months])]
    ELSE r

FMpredict_future_balance ==
    \E months \in ForecastMonths :
        /\ ret' = WithMonths(predict_future_balance(fm_transactions, months),
                             months)
        /\ UNCHANGED <<fm_transactions, qdmVars, ai_transactions>>

FMNext ==
    \/ FMadd_transaction
    \/ FMget_financial_summary

SpecFM == Init /\ [][FMNext]_vars

PredictorNext ==
    \/ FMadd_transaction
    \/ FMpredict_future_balance

SpecPredictor == Init /\ [][PredictorNext]_vars

\* A FinanceManager that loaded its list: three calendar months, so that
\* the monthly balances need not lie on one line.
BandInit ==
    /\ fm_transactions
         \in ListsUpTo([date : {1, 2, 3}, amount : {1, 2},
                        category : Categories, subcategory : {"Food"}],
                       MaxBandRows)
    /\ qdm_transactions = <<>>
    /\ qdm_portfolio = 0
    /\ qdm_cache = [summary |-> NoValue, recent_transactions |-> <<>>]
    /\ qdm_file = [transactions |-> <<>>, portfolio |-> 0]
    /\ ai_transactions = <<>>
    /\ ret = Returned("__init__", NoValue)

SpecBand == BandInit /\ [][FMpredict_future_balance]_vars

QDMNext ==
    \/ QDMadd_transaction
    \/ QDMupdate_portfolio
    \/ QDMget_financial_summary

SpecQDM == Init /\ [][QDMNext]_vars

StoreNext ==
    \/ Store_add_transaction
    \/ Store_update_transaction
    \/ Store_delete_transaction
    \/ Store_import_data
    \/ Store_load_data

SpecStore == Init /\ [][StoreNext]_vars

FMStoreNext ==
    \/ FMStore_add_transaction
    \/ FMStore_load_data

\* add_transaction, delete_transaction and update_portfolio, which end in
\* save_data, on records of any date
SpecCache ==
    Init /\ [][\/ Store_add_unchecked
               \/ Store_delete_transaction
               \/ QDMupdate_portfolio]_vars

\* records are added and deleted, never rewritten: every stored record is as
\* add_transaction built it
IdsNext ==
    \/ Store_add_transaction
    \/ Store_delete_transaction

SpecIds == Init /\ [][IdsNext]_vars

AINext ==
    \/ AIcalculate_financial_health_score
    \/ AIforecast_spending
    \/ AIdetect_anomalies

SpecAI == AIInit /\ [][AINext]_vars

EngineInit ==
    /\ fm_transactions = <<>>
    /\ qdm_transactions = <<>>
    /\ qdm_portfolio = 0
    /\ qdm_cache = [summary |-> NoValue, recent_transactions |-> <<>>]
    /\ qdm_file = [transactions |-> <<>>, portfolio |-> 0]
    /\ ai_transactions \in ListsUpTo(AITransaction, MaxEngineRows)
    /\ ret = Returned("__init__", NoValue)

EngineNext ==
    \/ AINext
    \/ AIgenerate_investment_recommendations

SpecEngine == EngineInit /\ [][EngineNext]_vars

SpecTrend == TrendInit /\ [][AIcalculate_monthly_trend]_vars

SpecAnomalies == AnomalyInit /\ [][AIdetect_anomalies]_vars

SpecHealth == HealthInit /\ [][AIcalculate_financial_health_score]_vars

SpecAdvice == AdviceInit /\ [][AIcalculate_financial_health_score]_vars

SpecOutliers == OutlierInit /\ [][AIdetect_anomalies]_vars

\* The data file "quantum_finance_data.json" as a new QuantumDataManager can
\* find it: written by QuantumDataManager.save_data, or by
\* FinanceManager.save_data, whose data_file has the same default name, or
\* holding records of both.
\* No QuantumDataManager has been constructed yet.
ConstructInit ==
    /\ fm_transactions = <<>>
    /\ qdm_transactions = <<>>
    /\ qdm_portfolio = 0
    /\ qdm_cache = [summary |-> NoValue, recent_transactions |-> <<>>]
    /\ qdm_file
         \in [transactions : ListsUpTo(ImportRecords \cup {ForeignRecord},
                                       MaxFileRecords),
              portfolio : PortfolioValues]
    /\ ai_transactions = <<>>
    /\ ret = Returned("__init__", NoValue)

\* A store that add_transaction filled at time 1: up to MaxDeleteRows
\* records, with ids of the caller and generated ones, some of them equal.
DeleteInit ==
    /\ fm_transactions = <<>>
    /\ qdm_transactions
         \in ListsUpTo({Transaction(IF "id" \in DOMAIN d THEN d
                                    ELSE Merge(d, [id |-> generate_id(IdText(d))]),
                                    1) :
                           d \in StoreInputNoId \cup StoreInputWithId},
                       MaxDeleteRows)
    /\ qdm_portfolio = 0
    /\ qdm_cache = update_cache(qdm_transactions, 0, 1)
    /\ qdm_file = [transactions |-> qdm_transactions, portfolio |-> 0]
    /\ ai_transactions = <<>>
    /\ ret = Returned("__init__", NoValue)

\* delete_transaction and import_data on a store that holds records
SpecDelete ==
    DeleteInit /\ [][Store_delete_transaction \/ Store_import_data]_vars


SpecConstruct == ConstructInit /\ [][Store_load_data]_vars

SpecForecast == ForecastInit /\ [][Forecast_forecast_spending]_vars

\* The two managers are separate objects that share no variable.  A
\* behaviour of Spec drives one of them: once a manager has been changed,
\* the calls go to that manager.
FMUntouched == fm_transactions = <<>>

QDMUntouched ==
    /\ qdm_transactions = <<>>
    /\ qdm_portfolio = 0
    /\ qdm_cache = [summary |-> NoValue, recent_transactions |-> <<>>]

Next ==
    \/ QDMUntouched /\ FMNext
    \/ FMUntouched /\ QDMNext

Spec == Init /\ [][Next]_vars

EntryNext ==
    \/ Entry_get_category
    \/ Entry_get_amount

SpecEntry == Init /\ [][EntryNext]_vars

\* either store with its data file
PersistNext ==
    \/ QDMUntouched /\ FMStoreNext
    \/ FMUntouched /\ StoreNext

SpecPersist == Init /\ [][PersistNext]_vars

\* ======================================================================
\* Properties
\* ======================================================================
FMSummaryReturned == ret.op = "FinanceManager.get_financial_summary"
QDMSummaryReturned == ret.op = "QuantumDataManager.get_financial_summary"

\* the amounts of the transactions of one category, added up
CategoryTotal(transactions, category) ==
    SumSeq([i \in DOMAIN transactions |->
              IF transactions[i].category = category
              THEN transactions[i].amount ELSE 0])

\* the amounts of the transactions of one category and one month, added up
MonthTotal(transactions, category, month) ==
    SumSeq([i \in DOMAIN transactions |->
              IF transactions[i].category = category
                 /\ transactions[i].date = month
              THEN transactions[i].amount ELSE 0])

RECURSIVE SumValues(_)
SumValues(f) ==
    IF DOMAIN f = {} THEN 0
    ELSE LET k == CHOOSE x \in DOMAIN f : TRUE
         IN  f[k] + SumValues([x \in DOMAIN f \ {k} |-> f[x]])

\* C1: after FinanceManager.get_financial_summary on any transaction list,
\* a summary is returned whose total_income and total_expenses are the sums
\* of the Income and of the Expense amounts and whose net_balance is exactly
\* total_income - total_expenses.
C1_NetBalanceIsIncomeMinusExpenses ==
    FMSummaryReturned =>
        /\ ret.status = "ok"
        /\ ret.value.total_income = CategoryTotal(fm_transactions, "Income")
        /\ ret.value.total_expenses = CategoryTotal(fm_transactions, "Expense")
        /\ ret.value.net_balance
               = ret.value.total_income - ret.value.total_expenses

\* C2: FinanceManager.get_financial_summary never fails; savings_rate is
\* net_balance / total_income * 100 and expense_ratio is total_expenses /
\* total_income * 100 when total_income is not 0, and both are 0 when
\* total_income is 0.
C2_RatiosDefinedForEveryList ==
    FMSummaryReturned =>
        LET income == CategoryTotal(fm_transactions, "Income")
            expenses == CategoryTotal(fm_transactions, "Expense")
        IN  /\ ret.status = "ok"
            /\ income # 0 =>
                  /\ RatEq(ret.value.savings_rate,
                           Rat((income - expenses) * 100, income))
                  /\ RatEq(ret.value.expense_ratio,
                           Rat(expenses * 100, income))
            /\ income = 0 =>
                  /\ RatEq(ret.value.savings_rate, RatInt(0))
                  /\ RatEq(ret.value.expense_ratio, RatInt(0))

\* the labels (subcategory or type) of the transactions of one category
FMLabels(transactions, category) ==
    {transactions[i].subcategory :
        i \in {j \in DOMAIN transactions : transactions[j].category = category}}

QDMLabels(transactions, category) ==
    {transactions[i].type :
        i \in {j \in DOMAIN transactions : transactions[j].category = category}}

BreakdownsAddUp(summary, transactions, expenseLabels, incomeLabels) ==
    /\ SumValues(summary.expense_breakdown)
          = CategoryTotal(transactions, "Expense")
    /\ SumValues(summary.income_breakdown)
          = CategoryTotal(transactions, "Income")
    /\ DOMAIN summary.expense_breakdown \subseteq expenseLabels
    /\ DOMAIN summary.income_breakdown \subseteq incomeLabels

\* C3: in both summary implementations, for every transaction list, a
\* summary is returned in which the values of expense_breakdown add up to
\* the Expense total and the values of income_breakdown to the Income total,
\* every key being a label of a transaction of that category.
C3_BreakdownsSumToTotals ==
    /\ FMSummaryReturned =>
          /\ ret.status = "ok"
          /\ BreakdownsAddUp(ret.value, fm_transactions,
                             FMLabels(fm_transactions, "Expense"),
                             FMLabels(fm_transactions, "Income"))
    /\ QDMSummaryReturned =>
          /\ ret.status = "ok"
          /\ BreakdownsAddUp(ret.value, qdm_transactions,
                             QDMLabels(qdm_transactions, "Expense"),
                             QDMLabels(qdm_transactions, "Income"))

InPercentRange(tenths) == 0 <= tenths /\ tenths <= 1000

\* C4: the score returned by calculate_financial_health_score and every
\* sub-score of its breakdown (savings, stability, diversity, growth) lie in
\* [0, 100], for every transaction list.  (Rounded values are tenths.)
C4_HealthScoresWithin0And100 ==
    ret.op = "calculate_financial_health_score" =>
        /\ InPercentRange(ret.value.score)
        /\ DOMAIN ret.value.breakdown # {} =>
              /\ InPercentRange(ret.value.breakdown.savings_score)
              /\ InPercentRange(ret.value.breakdown.stability_score)
              /\ InPercentRange(ret.value.breakdown.diversity_score)
              /\ InPercentRange(ret.value.breakdown.growth_score)

\* C5: the savings_rate of QuantumDataManager.get_financial_summary is
\* (total_income - total_expenses) / total_income * 100 over the whole
\* transaction list when total_income is not 0, and 0 when it is 0,
\* whatever the current month is.
C5_QDMSavingsRateOverAllTransactions ==
    QDMSummaryReturned =>
        LET income == CategoryTotal(qdm_transactions, "Income")
            expenses == CategoryTotal(qdm_transactions, "Expense")
        IN  RatEq(ret.value.savings_rate,
                  IF income # 0 THEN Rat((income - expenses) * 100, income)
                  ELSE RatInt(0))

\* C6: in both summary implementations the current-month income and expense
\* fields are the sums of the Income and of the Expense amounts dated in the
\* current month (0 when there is none), and the call completes without
\* error for every non-empty list.
C6_CurrentMonthFields ==
    /\ (FMSummaryReturned /\ fm_transactions # <<>>) =>
          /\ ret.status = "ok"
          /\ ret.value.current_month_income
                 = MonthTotal(fm_transactions, "Income", ret.now)
          /\ ret.value.current_month_expense
                 = MonthTotal(fm_transactions, "Expense", ret.now)
    /\ (QDMSummaryReturned /\ qdm_transactions # <<>>) =>
          /\ ret.status = "ok"
          /\ ret.value.current_month_income
                 = MonthTotal(qdm_transactions, "Income", ret.now)
          /\ ret.value.current_month_expenses
                 = MonthTotal(qdm_transactions, "Expense", ret.now)

\* C7: on an empty transaction list both get_financial_summary
\* implementations return, without an exception, the default summary: every
\* numeric field 0, both breakdowns empty, transaction_count 0.
C7_EmptyListGivesDefaultSummary ==
    /\ (FMSummaryReturned /\ fm_transactions = <<>>) =>
          /\ ret.status = "ok"
          /\ ret.value.total_income = 0
          /\ ret.value.total_expenses = 0
          /\ ret.value.net_balance = 0
          /\ ret.value.current_month_income = 0
          /\ ret.value.current_month_expense = 0
          /\ RatEq(ret.value.savings_rate, RatInt(0))
          /\ RatEq(ret.value.expense_ratio, RatInt(0))
          /\ DOMAIN ret.value.expense_breakdown = {}
          /\ DOMAIN ret.value.income_breakdown = {}
          /\ ret.value.transaction_count = 0
          /\ RatEq(ret.value.avg_monthly_income, RatInt(0))
          /\ RatEq(ret.value.avg_monthly_expense, RatInt(0))
    /\ (QDMSummaryReturned /\ qdm_transactions = <<>>) =>
          /\ ret.status = "ok"
          /\ ret.value.total_income = 0
          /\ ret.value.total_expenses = 0
          /\ ret.value.net_worth = 0
          /\ ret.value.current_month_income = 0
          /\ ret.value.current_month_expenses = 0
          /\ RatEq(ret.value.savings_rate, RatInt(0))
          /\ DOMAIN ret.value.expense_breakdown = {}
          /\ DOMAIN ret.value.income_breakdown = {}
          /\ ret.value.transaction_count = 0
          /\ ret.value.portfolio_value = 0

\* the empty list with a portfolio worth something: the summary is asked for
C7_Witness ==
    /\ QDMSummaryReturned
    /\ qdm_transactions = <<>>
    /\ qdm_portfolio > 0

AIExpenses == SelectSeq(ai_transactions, IsExpense)

AllSameAmount(rows) ==
    \A i, j \in DOMAIN rows : rows[i].amount = rows[j].amount

\* C8: detect_anomalies returns an empty list when all Expense transactions
\* have the same amount (one of them included) and when there is none, and
\* it never divides by a standard deviation of 0.
C8_ConstantExpensesGiveNoAnomalies ==
    ret.op = "detect_anomalies" =>
        /\ ret.value.zero_std_divisions = 0
        /\ AllSameAmount(AIExpenses) => ret.value.anomalies = <<>>

\* six equal expenses: the standard deviation is 0 and the call returned
C8_Witness ==
    /\ ret.op = "detect_anomalies"
    /\ Len(AIExpenses) = 6
    /\ AllSameAmount(AIExpenses)

\* some list of this specification does have an anomaly
C8_SomeAnomalyFlagged ==
    /\ ret.op = "detect_anomalies"
    /\ ret.value.anomalies # <<>>

\* C9: predict_future_balance returns the empty result, without an
\* exception, whenever the manager holds fewer than 3 transactions or its
\* transactions fall in fewer than 2 calendar months; predictions are
\* returned only when both minimums are met.
C9_PredictionNeedsThreeTransactionsTwoMonths ==
    ret.op = "predict_future_balance" =>
        /\ (Len(fm_transactions) < 3
              \/ Cardinality(MonthsOf(fm_transactions)) < 2)
             => (ret.status = "ok" /\ ret.value.empty)
        /\ (ret.status = "ok" /\ ~ret.value.empty)
             => /\ Len(fm_transactions) >= 3
                /\ Cardinality(MonthsOf(fm_transactions)) >= 2
                /\ Len(ret.value.predictions) >= 1

\* three transactions of one month: the empty result
C9_Witness ==
    /\ ret.op = "predict_future_balance"
    /\ Len(fm_transactions) = 3
    /\ Cardinality(MonthsOf(fm_transactions)) = 1
    /\ ret.status = "ok"
    /\ ret.value.empty

\* both minimums met: predictions are returned
C9_PredictionsReturned ==
    /\ ret.op = "predict_future_balance"
    /\ ret.status = "ok"
    /\ ~ret.value.empty

\* C10 as stated: forecast_spending returns an empty list whenever the
\* Expense transactions fall in fewer than 2 calendar months.
C10_EmptyBelowTwoExpenseMonths ==
    ret.op = "forecast_spending" =>
        (Cardinality(MonthsOf(AIExpenses)) < 2 => ret.value = <<>>)

\* C10, amended: forecast_spending returns an empty list whenever there are
\* fewer than 3 Expense transactions, in however many calendar months.
C10_EmptyBelowThreeExpenses ==
    ret.op = "forecast_spending" =>
        (Len(AIExpenses) < 3 => ret.value = <<>>)

\* two expenses in two different months, and a forecast of at least one
\* month was asked for
C10_Witness ==
    /\ ret.op = "forecast_spending"
    /\ Len(AIExpenses) = 2
    /\ Cardinality(MonthsOf(AIExpenses)) = 2
    /\ ret.value = <<>>

\* C11: after any sequence of add_transaction, update_transaction,
\* delete_transaction and import_data calls, every transaction a store
\* holds has an amount greater than 0.
C11_StoredAmountsPositive ==
    /\ \A i \in DOMAIN qdm_transactions : qdm_transactions[i].amount > 0
    /\ \A i \in DOMAIN fm_transactions : fm_transactions[i].amount > 0

\* C12: starting from a store whose ids are pairwise distinct, after any
\* sequence of add_transaction, update_transaction and delete_transaction
\* calls the ids of the stored transactions are pairwise distinct.
C12_IdsPairwiseDistinct ==
    \A i, j \in DOMAIN qdm_transactions :
        i # j => qdm_transactions[i].id # qdm_transactions[j].id

AddReturned ==
    /\ ret.op = "QuantumDataManager.add_transaction"
    /\ ret.status = "ok"

\* the record add_transaction appended
Appended == qdm_transactions[Len(qdm_transactions)]

\* the id was made by generate_id, not supplied by the caller
IdGenerated(txn) == txn.id \notin StoreIds

\* C13: add_transaction returns the id of the record it appended; an id
\* the call generated is a function of (date, amount, description) only, so
\* it equals the generated id of every stored record with an equal date,
\* an equal amount and an equal description.
C13_IdIsFunctionOfDateAmountDescription ==
    AddReturned =>
        /\ ret.value = Appended.id
        /\ \A i \in DOMAIN qdm_transactions :
              (/\ IdGenerated(Appended)
               /\ IdGenerated(qdm_transactions[i])
               /\ qdm_transactions[i].date = Appended.date
               /\ qdm_transactions[i].amount = Appended.amount
               /\ qdm_transactions[i].description = Appended.description)
              => qdm_transactions[i].id = Appended.id

UpdateReturned(r, value) ==
    /\ r.op = "QuantumDataManager.update_transaction"
    /\ r.status = "ok"
    /\ r.value = value

\* new is old with the keys of updates overridden and updated_at set to now
Overridden(old, updates, now, new) ==
    /\ \A k \in TransactionFields \ {"updated_at"} :
           new[k] = IF k \in DOMAIN updates THEN updates[k] ELSE old[k]
    /\ new.updated_at = now

FileHoldsStore ==
    qdm_file.transactions
        = [i \in DOMAIN qdm_transactions |-> asdict(qdm_transactions[i])]

\* C15: what save_data wrote, loaded into a new manager, is the saved
\* transaction list: the same records in the same order with the same
\* fields (id, created_at and updated_at included), for QuantumDataManager
\* and for FinanceManager; the data file always holds the stored list, so
\* saving the loaded list writes the same array again.
C15_SaveLoadRoundTrip ==
    [][/\ FileHoldsStore'
       /\ ret'.op = "QuantumDataManager.load_data" =>
              qdm_transactions' = qdm_transactions
       /\ ret'.op = "FinanceManager.load_data" =>
              /\ fm_transactions' = fm_transactions
              /\ FinanceManager_save_data(fm_transactions')
                     = FinanceManager_save_data(fm_transactions)
      ]_vars

\* a reload at a time that is not the first record's creation time, of a
\* store whose first record was updated after it was created
C15_Witness ==
    /\ ret.op = "QuantumDataManager.load_data"
    /\ Len(qdm_transactions) = 2
    /\ qdm_transactions[1].created_at # ret.now
    /\ qdm_transactions[1].updated_at # qdm_transactions[1].created_at

\* a reload, in a process with another hash salt, of a list that holds a
\* record with a generated id
C15_FMWitness ==
    /\ ret.op = "FinanceManager.load_data"
    /\ \E i \in DOMAIN fm_transactions :
           /\ fm_transactions[i].id # "a"
           /\ fm_transactions[i].id
                  # finance_core_Transaction(
                        [k \in DOMAIN fm_transactions[i] \ {"id"} |->
                            fm_transactions[i][k]], ret.now).id

\* the arguments of the call that ret describes: the transaction list, or
\* the portfolio and the risk tolerance
SameArguments(r1, r2) ==
    /\ r1.op = r2.op
    /\ r1.op \in {"calculate_financial_health_score", "detect_anomalies",
                  "generate_investment_recommendations"}
    /\ r1.op = "generate_investment_recommendations" =>
          /\ r1.value.portfolio = r2.value.portfolio
          /\ r1.value.risk_tolerance = r2.value.risk_tolerance

\* C16: two invocations of an analytics operation of AIFinancialEngine
\* with equal arguments return equal results, and no invocation changes the
\* transaction list it was given.
C16_EqualArgumentsEqualResults ==
    [][/\ SameArguments(ret, ret') => ret'.value = ret.value
       /\ ai_transactions' = ai_transactions
      ]_vars

CategoryReturned == ret.op = "get_category" /\ ret.status = "ok"

\* the line, stripped and upper-cased, is one of the four accepted words
AcceptedCategoryWord(line) ==
    Upper(Strip(line))
        \in {<<"I">>, <<"I", "N", "C", "O", "M", "E">>,
             <<"E">>, <<"E", "X", "P", "E", "N", "S", "E">>}

\* C17: get_category returns for exactly the lines I, Income, E, Expense
\* (any case, blanks around ignored) and prompts again for every other
\* line; what it returns is the category the aggregations filter on,
\* 'Income' or 'Expense', so a transaction with that category counts as
\* income or as expense.
C17_ReturnsCanonicalCategory ==
    ret.op = "get_category" =>
        /\ ret.status = "ok" <=> AcceptedCategoryWord(ret.value.line)
        /\ ret.status = "ok" =>
              /\ ret.value.result \in Categories
              /\ \/ IsIncome([category |-> ret.value.result])
                 \/ IsExpense([category |-> ret.value.result])

AmountReturned == ret.op = "get_amount" /\ ret.status = "ok"

\* C18: every value get_amount returns, rounded to 2 decimals as it is
\* returned, is greater than 0; an unparsable, zero or negative line is
\* answered by a new prompt.
C18_ReturnedAmountPositive ==
    AmountReturned =>
        /\ ~ret.value.result.nan
        /\ ret.value.result.hundredths > 0

\* the latest of a set of months
LatestMonth(months) == CHOOSE m \in months : \A other \in months : other <= m

\* C19: calculate_monthly_trend compares the two latest calendar months
\* that hold an Expense transaction, wherever they stand in the list:
\* change% = (current - previous) / previous * 100 when previous is not 0
\* and 0 otherwise (returned rounded to one decimal); the trend is
\* 'increasing' iff change% > 5, 'decreasing' iff change% < -5 and 'stable'
\* otherwise; with fewer than 2 such months the result is 'stable' with
\* change_percent 0.
C19_TrendComparesTwoLatestExpenseMonths ==
    ret.op = "calculate_monthly_trend" =>
        LET months == MonthsOf(AIExpenses)
        IN  IF Cardinality(months) < 2 THEN
                /\ ret.value.trend = "stable"
                /\ ret.value.change_percent = 0
            ELSE
            LET current_month == LatestMonth(months)
                previous_month == LatestMonth(months \ {current_month})
                current ==
                    MonthTotal(ai_transactions, "Expense", current_month)
                previous ==
                    MonthTotal(ai_transactions, "Expense", previous_month)
                change == IF previous # 0
                          THEN Rat((current - previous) * 100, previous)
                          ELSE RatInt(0)
            IN  /\ ret.value.trend = "increasing"
                       <=> RatLt(RatInt(5), change)
                /\ ret.value.trend = "decreasing"
                       <=> RatLt(change, RatInt(0 - 5))
                /\ ret.value.trend \in {"increasing", "decreasing", "stable"}
                /\ ret.value.change_percent = Round1(change)

\* expenses in three months, listed latest first, the two latest months
\* rising by more than 5%
C19_Witness ==
    /\ ret.op = "calculate_monthly_trend"
    /\ Len(ai_transactions) = 3
    /\ Cardinality(MonthsOf(AIExpenses)) = 3
    /\ ai_transactions[1].date = 3
    /\ ai_transactions[3].date = 2
    /\ ret.value.trend = "increasing"

\* a change of exactly 5% is 'stable'
C19_BoundaryReached ==
    /\ ret.op = "calculate_monthly_trend"
    /\ ret.value.trend = "stable"
    /\ ret.value.change_percent = 50

\* ------------------------------------------------------------------- C20
\* a prediction was returned by predict_future_balance
PredictionsGiven ==
    /\ ret.op = "predict_future_balance"
    /\ ret.status = "ok"
    /\ ~ret.value.empty

\* value(a) >= 0 for a number (num + side * sqrt(margin_sq)) / den or 0
BandNonNeg(a) == a.clamped \/ SurdNonNeg(a.num, a.side, a.margin_sq)

\* value(a) <= value(b) for two such numbers over the same den and margin_sq
BandLe(a, b) ==
    IF a.clamped /\ b.clamped THEN TRUE
    ELSE IF a.clamped THEN SurdNonNeg(b.num, b.side, b.margin_sq)
    ELSE IF b.clamped THEN SurdNonNeg(0 - a.num, 0 - a.side, a.margin_sq)
    ELSE SurdNonNeg(b.num - a.num, b.side - a.side, a.margin_sq)

\* sum over the historical months of (den * (y[i] - fitted(i - 1)))^2, with
\* the fitted values taken from the straight line through two predictions
\* num0 at month index x0 and slope step per month
SquaredResiduals(y, num0, x0, step, den) ==
    SumSeq([i \in 1..Len(y) |->
               (den * y[i] - (num0 - step * (x0 - (i - 1))))
             * (den * y[i] - (num0 - step * (x0 - (i - 1))))])

\* C20: every prediction returned by predict_future_balance satisfies
\* 0 <= confidence_low <= predicted_balance <= confidence_high, where
\* predicted_balance is max(0, fitted value) and the band is the fitted value
\* -/+ 1.96 * the standard deviation of the fit residuals, clamped at 0; there
\* are exactly `months` predictions and their month indices are consecutive,
\* starting at the number of historical monthly buckets.
C20_BandOrderedAroundPrediction ==
    PredictionsGiven =>
        LET ps == ret.value.predictions
            y == MonthlyBalance(fm_transactions)
            k == Cardinality(MonthsOf(fm_transactions))
            fit == LinearFit(y)
        IN  /\ Len(ps) = ret.value.months
            /\ \A i \in DOMAIN ps :
                  LET p == ps[i]
                      sq == SquaredResiduals(y, p.fitted.n, p.month,
                                              fit.step, p.fitted.d)
                  IN  /\ p.month = k + (i - 1)
                      /\ BandNonNeg(p.confidence_low)
                      /\ BandLe(p.confidence_low, p.predicted_balance)
                      /\ BandLe(p.predicted_balance, p.confidence_high)
                      \* predicted_balance = max(0, fitted)
                      /\ p.predicted_balance.side = 0
                      /\ p.predicted_balance.num = p.fitted.n
                      /\ p.predicted_balance.den = p.fitted.d
                      /\ p.predicted_balance.clamped = (p.fitted.n < 0)
                      \* the band is fitted -/+ 1.96 * std, clamped at 0
                      /\ p.confidence_low.side = 0 - 1
                      /\ p.confidence_high.side = 1
                      /\ \A b \in {p.confidence_low, p.confidence_high} :
                            /\ b.num = p.fitted.n
                            /\ b.den = p.fitted.d
                            \* margin_error^2 = (2401 / 625) * sq / Len(y)
                            /\ b.margin_sq.n = 2401 * sq
                            /\ b.margin_sq.d = 625 * Len(y)
                            /\ b.clamped = ~BandNonNeg([b EXCEPT !.clamped = FALSE])

\* two predictions whose band is wider than a point, the lower end of the
\* first one clamped at 0 below a positive predicted balance
C20_Witness ==
    /\ PredictionsGiven
    /\ Len(ret.value.predictions) = 2
    /\ ret.value.predictions[1].confidence_low.margin_sq.n > 0
    /\ ret.value.predictions[1].confidence_low.clamped
    /\ ~ret.value.predictions[1].predicted_balance.clamped
    /\ ret.value.predictions[1].fitted.n > 0

\* a band wider than a point whose lower end stays above 0
C20_LowAboveZeroReached ==
    /\ PredictionsGiven
    /\ ret.value.predictions[1].confidence_low.margin_sq.n > 0
    /\ ~ret.value.predictions[1].confidence_low.clamped

\* a negative fitted value, clamped to a predicted balance of 0
C20_NegativeFitReached ==
    /\ PredictionsGiven
    /\ ret.value.predictions[1].confidence_low.margin_sq.n > 0
    /\ ret.value.predictions[1].predicted_balance.clamped


\* ------------------------------------------------------------------- C21
\* the latest n of a set of months
RECURSIVE LatestMonths(_, _)
LatestMonths(months, n) ==
    IF n = 0 \/ months = {} THEN {}
    ELSE LET m == CHOOSE x \in months : \A y \in months : y <= x
         IN  {m} \cup LatestMonths(months \ {m}, n - 1)

\* the Expense amounts dated in one of the given months, added up
ExpensesIn(rows, months) ==
    SumAmount(SelectSeq(rows, LAMBDA t : IsExpense(t) /\ t.date \in months))

\* C21: with at least 3 Expense transactions forecast_spending(df, months)
\* returns exactly `months` entries; entry i (0-based) has predicted_amount =
\* (mean of the monthly expense totals of the last up-to-3 expense months) *
\* (1 + 0.02 * i) and confidence = max(0.7 - 0.1 * i, 0.3), so the confidence
\* never increases with i and is never below 0.3.
C21_ForecastIsTrailingMeanWithGrowth ==
    (ret.op = "forecast_spending" /\ Len(AIExpenses) >= 3) =>
        LET f == ret.value.forecast
            last == LatestMonths(MonthsOf(AIExpenses), 3)
            total == ExpensesIn(ai_transactions, last)
        IN  /\ Len(f) = ret.value.months
            /\ \A j \in DOMAIN f :
                  \* entry i = j - 1
                  /\ f[j].predicted_amount.n * Cardinality(last) * 100
                         = total * (100 + 2 * (j - 1)) * f[j].predicted_amount.d
                  /\ RatEq(f[j].confidence,
                           IF 7 - (j - 1) >= 3 THEN Rat(7 - (j - 1), 10)
                           ELSE Rat(3, 10))
                  /\ RatLe(Rat(3, 10), f[j].confidence)
                  /\ j > 1 => RatLe(f[j].confidence, f[j - 1].confidence)

\* five months forecast from expenses in four calendar months whose trailing
\* three do not have the mean of all four; the last confidence is the floor
C21_Witness ==
    /\ ret.op = "forecast_spending"
    /\ Len(AIExpenses) >= 3
    /\ Cardinality(MonthsOf(AIExpenses)) = 4
    /\ 4 * ExpensesIn(ai_transactions, LatestMonths(MonthsOf(AIExpenses), 3))
         # 3 * SumAmount(AIExpenses)
    /\ Len(ret.value.forecast) = 5
    /\ RatEq(ret.value.forecast[5].confidence, Rat(3, 10))


\* ------------------------------------------------------------------- C22
HealthScoreReturned == ret.op = "calculate_financial_health_score"

\* the distinct subcategories of the Income rows
IncomeTypes(rows) == {rows[i].type : i \in {j \in DOMAIN rows : IsIncome(rows[j])}}

\* a value rounded to one decimal, given in tenths, is within 0.05 of x
RoundsTo(tenths, x) ==
    /\ 20 * x.n - 2 * tenths * x.d <= x.d
    /\ 2 * tenths * x.d - 20 * x.n <= x.d

C22_TenTransactionsReached ==
    /\ HealthScoreReturned
    /\ Len(ai_transactions) = 10
    /\ ret.value.breakdown.stability_score = 400

\* expenses only: total_income is 0
C22_NoIncomeReached ==
    /\ HealthScoreReturned
    /\ ai_transactions # <<>>
    /\ CategoryTotal(ai_transactions, "Income") = 0


\* ------------------------------------------------------------------- C23
\* s is a subsequence of t
RECURSIVE IsSubSeq(_, _)
IsSubSeq(s, t) ==
    IF s = <<>> THEN TRUE
    ELSE IF t = <<>> THEN FALSE
    ELSE IF Head(s) = Head(t) THEN IsSubSeq(Tail(s), Tail(t))
    ELSE IsSubSeq(s, Tail(t))

HealthMessages ==
    <<"Increase savings rate to at least 20% of income",
      "Reduce expenses to below 80% of income",
      "Diversify income sources for better stability",
      "Focus on building emergency fund">>

Recommended(message) ==
    \E i \in DOMAIN ret.value.recommendations :
        ret.value.recommendations[i] = message

\* C23: the recommendations of calculate_financial_health_score are the
\* messages of four rules in the fixed order savings, expenses, diversity,
\* emergency fund: 'Increase savings rate...' iff the savings rate of the
\* transactions is < 20, 'Reduce expenses...' iff their expense ratio is
\* > 80, 'Diversify income sources...' iff diversity_score < 60, 'Focus on
\* building emergency fund' iff savings_score < 70; each message at most
\* once.
C23_RecommendationsFollowThresholds ==
    (HealthScoreReturned /\ CategoryTotal(ai_transactions, "Income") > 0) =>
        LET income == CategoryTotal(ai_transactions, "Income")
            expenses == CategoryTotal(ai_transactions, "Expense")
            sources == Cardinality(IncomeTypes(ai_transactions))
        IN  /\ IsSubSeq(ret.value.recommendations, HealthMessages)
            /\ Recommended(HealthMessages[1])
                   <=> (income - expenses) * 100 < 20 * income
            /\ Recommended(HealthMessages[2])
                   <=> expenses * 100 > 80 * income
            /\ Recommended(HealthMessages[3]) <=> 20 * sources < 60
            /\ Recommended(HealthMessages[4])
                   <=> (2 * (income - expenses) < income
                          /\ 200 * (income - expenses) < 70 * income)


\* ------------------------------------------------------------------- C24
\* n times the distance of an amount from the mean of the Expense amounts
ScaledDeviation(amount) == Len(AIExpenses) * amount - SumAmount(AIExpenses)

\* n^2 times the sum of the squared distances from the mean
ScaledSquares ==
    SumSeq([i \in DOMAIN AIExpenses |->
               ScaledDeviation(AIExpenses[i].amount)
             * ScaledDeviation(AIExpenses[i].amount)])

\* |z| > 2 with the population standard deviation: dev^2 > 4 * squares / n
PopulationZAbove2(amount) ==
    /\ ScaledSquares > 0
    /\ ScaledDeviation(amount) * ScaledDeviation(amount) * Len(AIExpenses)
         > 4 * ScaledSquares

\* |z| > 2 with the sample standard deviation: dev^2 > 4 * squares / (n - 1)
SampleZAbove2(amount) ==
    /\ ScaledSquares > 0
    /\ ScaledDeviation(amount) * ScaledDeviation(amount)
         * (Len(AIExpenses) - 1) > 4 * ScaledSquares

\* the date and amount of the flagged rows, in the order returned
FlaggedRows ==
    [i \in DOMAIN ret.value.anomalies |->
        [date |-> ret.value.anomalies[i].date,
         amount |-> ret.value.anomalies[i].amount]]

DateAndAmount(rows) ==
    [i \in DOMAIN rows |-> [date |-> rows[i].date, amount |-> rows[i].amount]]

\* every flagged row is tagged high_spending iff its amount is above the mean
\* and low_spending otherwise
TaggedByMean ==
    \A i \in DOMAIN ret.value.anomalies :
        ret.value.anomalies[i].type
            = IF ScaledDeviation(ret.value.anomalies[i].amount) > 0
              THEN "high_spending" ELSE "low_spending"

\* C24 as stated: detect_anomalies flags exactly the Expense transactions
\* whose absolute z-score exceeds 2, the z-score taken with the population
\* mean and the population standard deviation of all Expense amounts; a
\* flagged transaction is tagged high_spending iff its amount is above the
\* mean and low_spending otherwise; Income transactions are never flagged.
C24_FlagsPopulationZScoreAbove2 ==
    ret.op = "detect_anomalies" =>
        /\ FlaggedRows
             = DateAndAmount(SelectSeq(AIExpenses,
                   LAMBDA row : PopulationZAbove2(row.amount)))
        /\ TaggedByMean

\* C24, amended: detect_anomalies flags exactly the Expense transactions
\* whose absolute z-score exceeds 2, the z-score taken with the mean and the
\* sample standard deviation (divisor n - 1) of all Expense amounts, and
\* none when there are fewer than 2 of them; a flagged transaction is tagged
\* high_spending iff its amount is above the mean and low_spending
\* otherwise; Income transactions are never flagged.
C24_FlagsSampleZScoreAbove2 ==
    ret.op = "detect_anomalies" =>
        /\ FlaggedRows
             = DateAndAmount(SelectSeq(AIExpenses,
                   LAMBDA row : SampleZAbove2(row.amount)))
        /\ TaggedByMean

\* an expense is flagged next to an income row of the largest amount
C24_Witness ==
    /\ ret.op = "detect_anomalies"
    /\ ret.value.anomalies # <<>>
    /\ Len(AIExpenses) < Len(ai_transactions)

\* an expense more than 2 population but not more than 2 sample standard
\* deviations away from the mean is not flagged
C24_DisagreementReached ==
    /\ ret.op = "detect_anomalies"
    /\ ret.value.anomalies = <<>>
    /\ \E i \in DOMAIN AIExpenses : PopulationZAbove2(AIExpenses[i].amount)

\* an expense below the mean is flagged
C24_LowSpendingReached ==
    /\ ret.op = "detect_anomalies"
    /\ \E i \in DOMAIN ret.value.anomalies :
          ret.value.anomalies[i].type = "low_spending"


\* ------------------------------------------------------------------- C25
\* a record of the file holds everything an earlier record held
HoldsRecord(new, old) ==
    \A k \in DOMAIN old : k \in DOMAIN new /\ new[k] = old[k]

\* C25: constructing a QuantumDataManager on an existing data file leaves in
\* the file every transaction record that was there before, also when some
\* record does not match the Transaction fields.
C25_ConstructionKeepsFileRecords ==
    [][ret'.op = "QuantumDataManager.load_data" =>
          \A i \in DOMAIN qdm_file.transactions :
              \E j \in DOMAIN qdm_file'.transactions :
                  HoldsRecord(qdm_file'.transactions[j],
                              qdm_file.transactions[i])]_vars


\* ------------------------------------------------------------------- C26
\* a mutating operation of the QuantumDataManager returned successfully
MutatedSuccessfully ==
    /\ ret.status = "ok"
    /\ \/ ret.op \in {"QuantumDataManager.add_transaction",
                      "QuantumDataManager.update_portfolio"}
       \/ /\ ret.op \in {"QuantumDataManager.update_transaction",
                         "QuantumDataManager.delete_transaction",
                         "QuantumDataManager.import_data"}
          /\ ret.value = TRUE

\* C26: after every mutating operation that returns successfully,
\* cache['summary'] is get_financial_summary() of the current transactions
\* and portfolio and cache['recent_transactions'] is
\* get_recent_transactions(10): the cache never describes an older
\* transaction list.
C26_CacheDescribesStore ==
    MutatedSuccessfully =>
        /\ DatesParse(qdm_transactions)
        /\ qdm_cache = update_cache(qdm_transactions, qdm_portfolio, ret.now)


\* ------------------------------------------------------------------- C27
\* the records whose id is not the given one, in list order
WithoutId(transactions, transaction_id) ==
    SelectSeq(transactions, LAMBDA txn : txn.id # transaction_id)

\* C27: delete_transaction(id) removes every stored record with that id,
\* keeps the other records in their relative order and returns True iff at
\* least one record was removed; when no record has the id it returns False
\* and leaves transactions, data file and cache unchanged.
C27_DeleteRemovesAllWithId ==
    [][ret'.op = "QuantumDataManager.delete_transaction" =>
          \E transaction_id \in TargetIds :
              LET kept == WithoutId(qdm_transactions, transaction_id)
              IN  /\ qdm_transactions' = kept
                  /\ ret'.value = (Len(kept) < Len(qdm_transactions))
                  /\ ret'.value = FALSE =>
                        UNCHANGED <<qdm_transactions, qdm_file, qdm_cache>>
                  /\ ret'.value = TRUE =>
                        /\ qdm_file'.transactions = kept
                        /\ qdm_cache' = update_cache(kept, qdm_portfolio,
                                                     ret'.now)]_vars

\* a delete removed records, saved, and left one record in the store
C27_Witness ==
    /\ ret.op = "QuantumDataManager.delete_transaction"
    /\ ret.value = TRUE
    /\ Len(qdm_transactions) = 1
    /\ Len(qdm_cache.recent_transactions) = 1

\* no record had the id: False
C27_NothingRemovedReached ==
    /\ ret.op = "QuantumDataManager.delete_transaction"
    /\ ret.value = FALSE
    /\ Len(qdm_transactions) = 3


\* ------------------------------------------------------------------- C28
\* C28: in every summary QuantumDataManager.get_financial_summary returns,
\* also for a store without transactions whose portfolio is worth something,
\* portfolio_value is portfolio['total_value'] (0 if absent) and net_worth is
\* total_income - total_expenses + portfolio_value.
C28_NetWorthIncludesPortfolio ==
    QDMSummaryReturned =>
        /\ ret.value.portfolio_value = qdm_portfolio
        /\ ret.value.net_worth
             = CategoryTotal(qdm_transactions, "Income")
               - CategoryTotal(qdm_transactions, "Expense") + qdm_portfolio


\* ------------------------------------------------------------------- C29
\* the store holds the records of an imported list, in its order
HoldsImported(transactions, imported) ==
    /\ Len(transactions) = Len(imported)
    /\ \A i \in DOMAIN imported : HoldsRecord(transactions[i], imported[i])

\* C29: whenever import_data returns False, transactions, portfolio, data
\* file and cache are as before the call; it returns True only after the
\* imported transactions and portfolio have replaced the old ones and
\* save_data has run.
C29_ImportIsAllOrNothing ==
    [][ret'.op = "QuantumDataManager.import_data" =>
          /\ ret'.value = FALSE =>
                UNCHANGED <<qdm_transactions, qdm_portfolio, qdm_file,
                            qdm_cache>>
          /\ ret'.value = TRUE =>
                /\ \E imported_data \in ImportFiles :
                      /\ imported_data.readable
                      /\ IF "transactions" \in DOMAIN imported_data
                         THEN HoldsImported(qdm_transactions',
                                            imported_data.transactions)
                         ELSE qdm_transactions' = qdm_transactions
                      /\ IF "portfolio" \in DOMAIN imported_data
                         THEN qdm_portfolio' = imported_data.portfolio
                         ELSE qdm_portfolio' = qdm_portfolio
                /\ qdm_file' = [transactions |-> qdm_transactions',
                                portfolio |-> qdm_portfolio']
                /\ qdm_cache' = update_cache(qdm_transactions',
                                             qdm_portfolio', ret'.now)]_vars

\* an import into a store of three records returned False
C29_Witness ==
    /\ ret.op = "QuantumDataManager.import_data"
    /\ ret.value = FALSE
    /\ Len(qdm_transactions) = 3
    /\ qdm_file.transactions = qdm_transactions

\* an import replaced records and portfolio
C29_ImportedReached ==
    /\ ret.op = "QuantumDataManager.import_data"
    /\ ret.value = TRUE
    /\ qdm_portfolio = 5
    /\ Len(qdm_transactions) = 1


\* ------------------------------------------------------------------- C30
\* C30: with total_income > 0 the savings rate and the expense ratio of
\* calculate_financial_health_score sum to 100 (the breakdown reports each
\* rounded to one decimal), 'Increase savings rate...' is recommended iff
\* 'Reduce expenses...' is, and whenever 'Increase savings rate...' is
\* recommended 'Focus on building emergency fund' is recommended too.
C30_SavingsAndExpenseRulesAgree ==
    (HealthScoreReturned /\ CategoryTotal(ai_transactions, "Income") > 0) =>
        LET income == CategoryTotal(ai_transactions, "Income")
            expenses == CategoryTotal(ai_transactions, "Expense")
            savings_rate == Rat((income - expenses) * 100, income)
            expense_ratio == Rat(expenses * 100, income)
        IN  /\ RatEq(RatAdd(savings_rate, expense_ratio), RatInt(100))
            /\ RoundsTo(ret.value.breakdown.savings_rate, savings_rate)
            /\ RoundsTo(ret.value.breakdown.expense_ratio, expense_ratio)
            /\ Recommended(HealthMessages[1]) <=> Recommended(HealthMessages[2])
            /\ Recommended(HealthMessages[1]) => Recommended(HealthMessages[4])

\* expenses above 80% of the income: the savings, expense and emergency fund
\* messages together
C30_Witness ==
    /\ HealthScoreReturned
    /\ CategoryTotal(ai_transactions, "Income") = 401
    /\ CategoryTotal(ai_transactions, "Expense") = 401
    /\ Recommended(HealthMessages[1])
    /\ Recommended(HealthMessages[2])
    /\ Recommended(HealthMessages[4])

\* a savings rate of 19.95 beside an expense ratio of 80.05: neither the
\* savings nor the expense message, the emergency fund message alone of the
\* three
C30_AtThresholdReached ==
    /\ HealthScoreReturned
    /\ CategoryTotal(ai_transactions, "Income") = 401
    /\ CategoryTotal(ai_transactions, "Expense") = 321
    /\ ~Recommended(HealthMessages[1])
    /\ ~Recommended(HealthMessages[2])
    /\ Recommended(HealthMessages[4])

\* savings of half the income or more: none of the three messages
C30_NoneReached ==
    /\ HealthScoreReturned
    /\ CategoryTotal(ai_transactions, "Income") = 401
    /\ CategoryTotal(ai_transactions, "Expense") = 80
    /\ ~Recommended(HealthMessages[1])
    /\ ~Recommended(HealthMessages[2])
    /\ ~Recommended(HealthMessages[4])


====
